---- MODULE Spec2Model ----
(***************************************************************************)
(* A model of the next-client synchronisation engine: the entry tree of    *)
(* src/lib.rs, the remote and local event handlers of src/nc_listen.rs and *)
(* src/local_listen.rs, the repair procedures of src/repair.rs and the     *)
(* dispatcher of src/main.rs.                                              *)
(*                                                                         *)
(* Text is modelled by what '/' does to it: a string is the sequence of    *)
(* the pieces str::split("/") yields, so "/a/b" is <<"", "a", "b">>, "a/"  *)
(* is <<"a", "">>, "/" is <<"", "">> and "" is <<"">>.                     *)
(***************************************************************************)
EXTENDS Integers, Sequences, FiniteSets, TLC

VARIABLES
    ent,                  \* the heap of entries: id -> Entry (0 is the root)
    last,                 \* what the last step did (observation only)
    nc_state,             \* PublicResource.nc_state.latest_activity_id
    network_status,       \* run(): network_status
    nc2l_cancel_map,      \* run(): remote-to-local cancellation counters
    l2nc_cancel_set,      \* run(): local-to-remote cancellation set
    offline_locevent_que, \* run(): local events buffered while offline
    com_q,                \* the command channel (com_tx, com_rx)
    run_state,            \* where run() is: "loop", "await", "Ok" or "Err"
    retry,                \* run(): retry
    poll_pc,              \* where nclistening() is
    poll_state,           \* nclistening(): its own copy of nc_state
    control_pc,           \* where the task that reads the standard input is
    watch_pc,             \* where the task of watching() is
    meta_pc,              \* where the task of exc_list_update_watching() is
    cache,                \* the cache file save_cache writes
    rx,                   \* watching(): the events the watcher has still to hand over
    exc_checker,          \* LocalInfo.exc_checker: the black and the white list
    activity_api,         \* the answers of the activity API, page by page
    net,                  \* whether the server can be reached
    srv,                  \* the files of the server
    log,                  \* the activity log of the server
    disk,                 \* the files under the local root
    env_steps             \* how many steps the environment has taken

engine_vars == <<nc_state, network_status, nc2l_cancel_map, l2nc_cancel_set,
                 offline_locevent_que, com_q, run_state, retry, poll_pc, poll_state,
                 control_pc, watch_pc, meta_pc, cache, rx, exc_checker, activity_api>>
env_vars == <<net, srv, log, disk, env_steps>>
vars == <<ent, last, engine_vars, env_vars>>

----------------------------------------------------------------------------
(* Bounds                                                                  *)

\* the tree operations are tried on paths of at most this many segments
MaxDepth == 2
\* the tree operations never grow the heap beyond this many entries
MaxEntries == 4

Atoms == {"a", "b"}

----------------------------------------------------------------------------
(* Strings, as split("/") sequences                                        *)

Last(s) == s[Len(s)]
Front(s) == SubSeq(s, 1, Len(s) - 1)

EmptyStr == <<"">>

\* let v be the value of an expression in F: the value is computed when F first
\* needs it, and once
Let(v, F(_)) == F(v)

\* format!("{}{}", s, t)
Cat(s, t) ==
    LET x == Last(s)
        y == t[1]
    IN  Front(s) \o <<IF x = "" THEN y ELSE IF y = "" THEN x ELSE x \o y>> \o Tail(t)

\* RE_HAS_LAST_SLASH "(.*)/$" and RE_HAS_HEAD_SLASH "^/(.*)"
RE_HAS_LAST_SLASH(s) == Len(s) >= 2 /\ Last(s) = ""
RE_HAS_HEAD_SLASH(s) == Len(s) >= 2 /\ s[1] = ""

\* a variant of add_head_slash that adds the separator to every text
add_head_slash_always(s) == <<"">> \o s
add_head_slash(s) == IF RE_HAS_HEAD_SLASH(s) THEN s ELSE <<"">> \o s

\* a variant of add_last_slash that leaves the text as it is
add_last_slash_never(s) == s
add_last_slash(s) == IF RE_HAS_LAST_SLASH(s) THEN s ELSE s \o <<"">>

\* drop_slash(s, &RE_HAS_LAST_SLASH)
drop_slash(s) == IF RE_HAS_LAST_SLASH(s) THEN Front(s) ELSE s

\* fix_root: one separator is dropped at the end and one is put at the head
\* when there is none
fix_root(root_path) ==
    LET dropped == drop_slash(root_path)
    IN  IF ~RE_HAS_HEAD_SLASH(dropped) THEN <<"">> \o dropped ELSE dropped

path2name(path) ==
    LET p == drop_slash(path)
        raw_name == <<Last(p)>>
    IN  IF RE_HAS_LAST_SLASH(path) THEN Cat(raw_name, <<"", "">>) ELSE raw_name

----------------------------------------------------------------------------
(* Entry (src/lib.rs)                                                      *)

NoEntry == -1             \* Option::None of an entry handle
NoEtag == 0               \* EntryType::File { etag: None }
RootId == 0

\* Entry::new
EntryNew(name, type_, etag) ==
    [name     |-> drop_slash(name),
     type_    |-> type_,
     etag     |-> etag,
     status   |-> "NeedUpdate",
     parent   |-> NoEntry,
     children |-> <<>>]

is_file(e) == e.type_ = "File"
is_dir(e) == ~is_file(e)

guess_from_name(name) ==
    IF RE_HAS_LAST_SLASH(name) THEN "Directory" ELSE "File"

get_name(e) == IF e.type_ = "Directory" THEN Cat(e.name, <<"", "">>) ELSE e.name

is_root(e) == e.name = EmptyStr /\ e.parent = NoEntry

\* a fresh handle: Arc::new(Mutex::new(..))
NewId(h) == CHOOSE i \in 0..Cardinality(DOMAIN h) : i \notin DOMAIN h

Alloc(h, e) == [i \in DOMAIN h \cup {NewId(h)} |-> IF i \in DOMAIN h THEN h[i] ELSE e]

\* a variant of append_child that sets the back-reference and leaves the child
\* map of the parent alone
append_child_unlinked(h, parent, child) == [h EXCEPT ![child].parent = parent]
\* Entry::append_child
append_child(h, parent, child) ==
    LET h1 == [h EXCEPT ![child].parent = parent]
        child_name == get_name(h1[child])
    IN  [h1 EXCEPT ![parent].children =
                      [x \in DOMAIN @ \cup {child_name} |->
                          IF x = child_name THEN child ELSE @[x]]]

\* Entry::prepare_path_vec
prepare_path_vec(path) ==
    LET len == Len(path)
        path_vec == [i \in 1..len |->
                        IF i > 1 THEN <<path[len + 1 - i], "">> ELSE <<path[len]>>]
    IN  IF path_vec[1] = EmptyStr THEN Tail(path_vec) ELSE path_vec

\* results: err is "" on Ok
Ok(v) == [err |-> "", val |-> v]
Err(e) == [err |-> e, val |-> NoEntry]

\* Entry::get_rec
RECURSIVE get_rec(_, _, _)
get_rec(h, self, path_vec) ==
    IF Len(path_vec) = 0 \/ get_name(h[self]) # Last(path_vec) THEN Ok(NoEntry)
    ELSE IF is_file(h[self]) THEN Err("NotDirectory")
    ELSE LET pv == Front(path_vec)
             len == Len(pv)
         IN  IF len = 0 THEN Err("panic")
             ELSE IF pv[len] \in DOMAIN h[self].children
             THEN LET e == h[self].children[pv[len]]
                  IN  IF is_file(h[e]) THEN Ok(e)
                      ELSE IF len = 1 THEN Ok(e)
                      ELSE get_rec(h, e, pv)
             ELSE Ok(NoEntry)

\* Entry::get
get(h, this, path) ==
    IF ~is_root(h[this]) THEN Ok(NoEntry)
    ELSE LET path_vec == prepare_path_vec(path)
         IN  IF Len(path_vec) = 0 THEN Ok(NoEntry)
             ELSE IF Len(path_vec) = 1
             THEN IF path_vec[1] = <<"", "">> THEN Ok(this) ELSE Ok(NoEntry)
             ELSE get_rec(h, this, path_vec)

\* Entry::get_parent / Entry::get_path
RECURSIVE path_rec(_, _)
path_rec(h, e) ==
    IF h[e].parent = NoEntry THEN Ok(EmptyStr)
    ELSE IF h[e].parent \notin DOMAIN h THEN Err("WeakUpgradeError")
    ELSE LET up == path_rec(h, h[e].parent)
         IN  IF up.err # "" THEN up
             ELSE Ok(Cat(up.val, get_name(h[h[e].parent])))

\* a variant of get_path that ends the path with the raw name of the entry
get_path_raw_tail(h, e) ==
    LET up == path_rec(h, e)
    IN  IF up.err # "" THEN up ELSE Ok(Cat(up.val, h[e].name))

get_path(h, e) ==
    LET up == path_rec(h, e)
    IN  IF up.err # "" THEN up ELSE Ok(Cat(up.val, get_name(h[e])))

\* results that carry the heap: a failed operation keeps what it had mutated
HOk(h, v) == [err |-> "", val |-> v, h |-> h]
HErr(h, e) == [err |-> e, val |-> NoEntry, h |-> h]

\* Entry::pop_rec
RECURSIVE pop_rec(_, _, _)
pop_rec(h, self, path_vec) ==
    IF Len(path_vec) = 0 \/ get_name(h[self]) # Last(path_vec) THEN HOk(h, NoEntry)
    ELSE IF is_file(h[self]) THEN HErr(h, "NotDirectory")
    ELSE LET pv == Front(path_vec)
             len == Len(pv)
         IN  IF len > 1
             THEN \* continue phase
                  IF pv[len] \in DOMAIN h[self].children
                  THEN LET e == h[self].children[pv[len]]
                       IN  IF is_file(h[e]) THEN HOk(h, NoEntry)
                           ELSE pop_rec(h, e, pv)
                  ELSE HOk(h, NoEntry)
             ELSE IF len = 0 THEN HErr(h, "panic")
             ELSE \* pop target
                  IF pv[len] \in DOMAIN h[self].children
                  THEN LET entry == h[self].children[pv[len]]
                       IN  HOk([h EXCEPT ![self].children = [x \in DOMAIN @ \ {pv[len]} |-> @[x]],
                                         ![entry].parent = NoEntry],
                               entry)
                  ELSE HOk(h, NoEntry)

\* Entry::pop
pop(h, self, path) ==
    IF ~is_root(h[self]) THEN HOk(h, NoEntry)
    ELSE pop_rec(h, self, prepare_path_vec(path))

\* results of append: the heap and the list of newly materialised entries
AOk(h, new) == [err |-> "", h |-> h, new |-> new]
AErr(h, e) == [err |-> e, h |-> h, new |-> <<>>]

\* Entry::append_rec
RECURSIVE append_rec(_, _, _, _, _, _)
append_rec(h, parent_entry, path_vec, entry, new_local_entries, append_mode) ==
    IF Len(path_vec) = 0 \/ get_name(h[parent_entry]) # Last(path_vec)
    THEN AErr(h, "InvalidPathError")
    ELSE IF is_file(h[parent_entry]) THEN AErr(h, "NotDirectory")
    ELSE LET pv == Front(path_vec)
             len == Len(pv)
         IN  IF len > 1
             THEN \* continue phase
                  LET name == pv[len]
                      found == name \in DOMAIN h[parent_entry].children
                      new_entry == NewId(h)
                      e == IF found THEN h[parent_entry].children[name] ELSE new_entry
                      h1 == IF found THEN h
                            ELSE append_child(Alloc(h, EntryNew(name, "Directory", NoEtag)),
                                              parent_entry, new_entry)
                      new1 == IF found THEN new_local_entries
                              ELSE Append(new_local_entries, <<new_entry, "UpToDate">>)
                  IN  IF is_file(h1[e]) THEN AErr(h1, "InvalidPathError")
                      ELSE append_rec(h1, e, pv, entry, new1, append_mode)
             ELSE \* append target
                  LET h1 == [h EXCEPT ![entry].status = "NeedUpdate"]
                      new1 == IF append_mode = "Create"
                              THEN Append(new_local_entries, <<entry, "NeedUpdate">>)
                              ELSE new_local_entries
                  IN  AOk(append_child(h1, parent_entry, entry), new1)

\* Entry::set_name
set_name(h, entry, new_name) == [h EXCEPT ![entry].name = drop_slash(new_name)]

\* Entry::append
append(h, root_entry, path, entry, append_mode, overwrite) ==
    IF ~is_root(h[root_entry]) THEN AOk(h, <<>>)
    ELSE LET g1 == get(h, root_entry, add_last_slash(path))
             g2 == get(h, root_entry, path)
             already_exist == g1.val # NoEntry \/ g2.val # NoEntry
         IN  IF g1.err # "" THEN AErr(h, g1.err)
             ELSE IF g1.val = NoEntry /\ g2.err # "" THEN AErr(h, g2.err)
             ELSE IF ~overwrite /\ already_exist THEN AErr(h, "AlreadyExist")
             ELSE LET path_vec == prepare_path_vec(path)
                      entry_name == get_name(h[entry])
                  IN  IF Len(path_vec) = 0 THEN AErr(h, "panic")
                      ELSE IF path_vec[1] # entry_name
                      THEN IF append_mode = "Move"
                           THEN IF already_exist /\ guess_from_name(path) = "Directory"
                                THEN append_rec(h, root_entry, <<entry_name>> \o path_vec,
                                                entry, <<>>, append_mode)
                                ELSE append_rec(set_name(h, entry, path_vec[1]), root_entry,
                                                path_vec, entry, <<>>, append_mode)
                           ELSE AErr(h, "InvalidPathError")
                      ELSE append_rec(h, root_entry, path_vec, entry, <<>>, append_mode)

\* the entries an owning handle still reaches; the others have been dropped
RECURSIVE Reach(_, _)
Reach(h, i) == {i} \cup UNION {Reach(h, h[i].children[k]) : k \in DOMAIN h[i].children}

Attached(h) == Reach(h, RootId)

\* the owned entries in tree order, the root first
RECURSIVE Walk(_, _, _)
Walk(h, i, keys) ==
    IF keys = {} THEN <<i>>
    ELSE LET k == CHOOSE x \in keys : TRUE
             c == h[i].children[k]
         IN  Walk(h, i, keys \ {k}) \o Walk(h, c, DOMAIN h[c].children)

\* a Weak handle whose entry has been dropped
Dangling == -2

\* Arc drop: an entry no owning handle reaches is freed.  Handles are
\* addresses and carry no meaning, so the surviving entries are renamed in
\* tree order.
Collect(h) ==
    LET order == Walk(h, RootId, DOMAIN h[RootId].children)
        pos(i) == (CHOOSE n \in 1..Len(order) : order[n] = i) - 1
        live == {order[n] : n \in 1..Len(order)}
    IN  [n \in 0..(Len(order) - 1) |->
            LET e == h[order[n + 1]]
            IN  [e EXCEPT !.parent = IF @ = NoEntry THEN NoEntry
                                     ELSE IF @ \in live THEN pos(@) ELSE Dangling,
                          !.children = [k \in DOMAIN @ |-> pos(@[k])]]]

----------------------------------------------------------------------------
(* The environment: paths, the server and the local disk                   *)

PathA == <<"", "a">>          \* "/a"
PathB == <<"", "b">>          \* "/b"
PathD == <<"", "d">>          \* "/d"
PathDA == <<"", "d", "a">>    \* "/d/a"
PathX == <<"", ".x">>         \* "/.x", a path the exclude list rejects
PathY == <<"", "~x">>         \* "/~x", another one
RootPath == <<"", "">>        \* "/"

AllPaths == {PathA, PathB, PathD, PathDA, PathX, PathY, <<"", "b", "a">>}

\* Path::parent and Path::file_name of an absolute path
PathParent(p) == IF Len(p) > 2 THEN Front(p) ELSE RootPath
FileName(p) == <<Last(p)>>

\* path2str: head slash added, trailing slash dropped, "/" kept
path2str(p) == add_head_slash(drop_slash(p))

IsUnder(p, d) == Len(p) > Len(d) /\ SubSeq(p, 1, Len(d)) = d
Rebase(p, from, to) == to \o SubSeq(p, Len(from) + 1, Len(p))

\* the file a request URL names: comm_nc adds the head slash and drops the
\* trailing one before it splits the target into URL segments
UrlKey(path) == drop_slash(add_head_slash(path))

\* the file a local path names: Path ignores repeated and trailing slashes
LocalKey(path) == <<"">> \o SelectSeq(path, LAMBDA c : c # "")

\* ExcludeChecker::judge with the built-in black list "^\." and "^~" and no
\* white list: a path is accepted unless one of its components is black
BlackAtoms == {".x", "~x"}
\* ExcludeChecker::new without an exclude file: the built-in black list only
DefaultChecker == [blacks |-> {"^\\.", "^~"}, whites |-> {}]
judge(path) == \A i \in 1..Len(path) : path[i] \notin BlackAtoms

NoFile == [kind |-> "none", etag |-> NoEtag]

\* the etag of the files the cache knows at the start, and the etag the server
\* gives to the next file written
InitEtag == 1
FreshEtag(lg) == Len(lg) + 2

SrvKind(sv, path) ==
    LET k == UrlKey(path)
    IN  IF k = EmptyStr THEN "dir" ELSE IF k \in AllPaths THEN sv[k].kind ELSE "none"

DiskKind(dk, path) ==
    LET k == LocalKey(path)
    IN  IF k = EmptyStr THEN "dir" ELSE IF k \in AllPaths THEN dk[k] ELSE "none"

\* removing and moving a file or a whole directory, on the server or on disk
FsRemove(m, p, none) == [x \in AllPaths |-> IF x = p \/ IsUnder(x, p) THEN none ELSE m[x]]

FsMove(m, p, q, none) ==
    [x \in AllPaths |->
        IF x = q THEN m[p]
        ELSE IF IsUnder(x, q)
        THEN IF Rebase(x, q, p) \in AllPaths THEN m[Rebase(x, q, p)] ELSE none
        ELSE IF x = p \/ IsUnder(x, p) THEN none
        ELSE m[x]]

\* NCEvent and LocalEvent: Create(p), Delete(p), Modify(p), Move(p, q)
NoPath == <<>>
Create(p) == [k |-> "Create", p |-> p, q |-> NoPath]
Delete(p) == [k |-> "Delete", p |-> p, q |-> NoPath]
Modify(p) == [k |-> "Modify", p |-> p, q |-> NoPath]
Move(p, q) == [k |-> "Move", p |-> p, q |-> q]

\* the commands of the channel
LocEvent(ev) == [c |-> "LocEvent", ev |-> ev]
NCEvents(events, by, new_state) ==
    [c |-> "NCEvents", events |-> events, by |-> by, state |-> new_state]
Terminate(r) == [c |-> "Terminate", r |-> r]

\* the server's side of a WebDAV request of the engine or of another client:
\* the new files, the activity it logs and the Etag header it answers.  A
\* request the server refuses answers a bad status and changes nothing.
WebDavOk(sv, lg, ev, by, etag) ==
    [ok |-> TRUE, srv |-> sv, log |-> Append(lg, [ev |-> ev, by |-> by]), etag |-> etag]
WebDavBad(sv, lg) == [ok |-> FALSE, srv |-> sv, log |-> lg, etag |-> NoEtag]

WebDavPut(sv, lg, p, by) ==
    LET k == UrlKey(p)
        etag == FreshEtag(lg)
    IN  IF k \in AllPaths /\ SrvKind(sv, PathParent(k)) = "dir" /\ sv[k].kind # "dir"
        THEN WebDavOk([sv EXCEPT ![k] = [kind |-> "file", etag |-> etag]], lg,
                      IF sv[k].kind = "none" THEN Create(k) ELSE Modify(k), by, etag)
        ELSE WebDavBad(sv, lg)

WebDavMkcol(sv, lg, p, by) ==
    LET k == UrlKey(p)
    IN  IF k \in AllPaths /\ SrvKind(sv, PathParent(k)) = "dir" /\ sv[k].kind = "none"
        THEN WebDavOk([sv EXCEPT ![k] = [kind |-> "dir", etag |-> NoEtag]], lg,
                      Create(k), by, NoEtag)
        ELSE WebDavBad(sv, lg)

WebDavDelete(sv, lg, p, by) ==
    LET k == UrlKey(p)
    IN  IF k \in AllPaths /\ sv[k].kind # "none"
        THEN WebDavOk(FsRemove(sv, k, NoFile), lg, Delete(k), by, NoEtag)
        ELSE WebDavBad(sv, lg)

WebDavMove(sv, lg, p, q, by) ==
    LET k == UrlKey(p)
        d == UrlKey(q)
    IN  IF /\ k \in AllPaths /\ d \in AllPaths /\ k # d
           /\ ~IsUnder(d, k) /\ ~IsUnder(k, d)
           /\ sv[k].kind # "none" /\ SrvKind(sv, PathParent(d)) = "dir"
        THEN WebDavOk(FsMove(sv, k, d, NoFile), lg, Move(k, d), by, sv[k].etag)
        ELSE WebDavBad(sv, lg)

----------------------------------------------------------------------------
(* Remote events (src/nc_listen.rs)                                        *)

\* What a handler works on: the tree h, the two cancellation books, the disk,
\* the server and its reachability, and wr, the list of the local writes the
\* handler has made (observation only).
Fail(s, e) == [err |-> e, s |-> s]
Done(s) == [err |-> "", s |-> s]

Wrote(s, op, path) ==
    [s EXCEPT !.wr = Append(@, [op |-> op, p |-> LocalKey(path), from |-> NoPath])]

\* Weak::upgrade: the entry is still owned by the tree
upgrade(h, e) == e \in Attached(h)

\* HashMap counter: *map.entry(key).or_insert(0) += 1
Bump_twice(m, k) == IF k \in DOMAIN m THEN [m EXCEPT ![k] = @ + 2]
                    ELSE [x \in DOMAIN m \cup {k} |-> IF x = k THEN 2 ELSE m[x]]
Bump(m, k) == IF k \in DOMAIN m THEN [m EXCEPT ![k] = @ + 1]
              ELSE [x \in DOMAIN m \cup {k} |-> IF x = k THEN 1 ELSE m[x]]

\* from_nc: PROPFIND of the target, the answer for the target itself
from_nc(s, target) ==
    LET k == UrlKey(add_head_slash(target))
    IN  IF ~s.net THEN Err("RequestError")
        ELSE IF SrvKind(s.srv, k) = "none" THEN Err("BadStatusError")
        ELSE IF SrvKind(s.srv, k) = "dir"
        THEN Ok([type_ |-> "Directory", etag |-> NoEtag])
        ELSE Ok([type_ |-> "File", etag |-> s.srv[k].etag])

ncpath_is_file(s, target) ==
    LET r == from_nc(s, target)
    IN  r.err = "" /\ r.val.type_ = "File"

\* get_etag_from_nc: NoEtag stands for None
get_etag_from_nc(s, target) ==
    LET r == from_nc(s, target)
    IN  IF r.err = "" /\ r.val.type_ = "File" THEN r.val.etag ELSE NoEtag

\* fs::create_dir_all
RECURSIVE create_dir_all(_, _)
create_dir_all(dk, k) ==
    IF DiskKind(dk, k) = "dir" THEN [ok |-> TRUE, disk |-> dk]
    ELSE IF DiskKind(dk, k) = "file" \/ k \notin AllPaths THEN [ok |-> FALSE, disk |-> dk]
    ELSE LET up == create_dir_all(dk, Front(k))
         IN  IF up.ok THEN [ok |-> TRUE, disk |-> [up.disk EXCEPT ![k] = "dir"]]
             ELSE up

\* fileope::touch_entry; only a touch that makes a new file or directory is
\* listed as a write
touch_entry(s, path, isfile) ==
    LET k == LocalKey(path)
    IN  IF isfile
        THEN IF k \in AllPaths /\ DiskKind(s.disk, Front(k)) = "dir" /\ s.disk[k] # "dir"
             THEN Done(IF s.disk[k] = "none"
                       THEN Wrote([s EXCEPT !.disk[k] = "file"], "touch", path) ELSE s)
             ELSE Fail(s, "IoError")
        ELSE Let(create_dir_all(s.disk, k), LAMBDA r :
                 IF ~r.ok THEN Fail([s EXCEPT !.disk = r.disk], "IoError")
                 ELSE Done(IF r.disk # s.disk
                           THEN Wrote([s EXCEPT !.disk = r.disk], "touch", path) ELSE s))

\* fileope::remove_entry
remove_entry(s, path) ==
    LET k == LocalKey(path)
    IN  IF DiskKind(s.disk, k) = "none" THEN Done(s)
        ELSE IF k \notin AllPaths THEN Fail(s, "IoError")
        ELSE Done(Wrote([s EXCEPT !.disk = FsRemove(@, k, "none")], "remove", path))

\* fileope::move_entry
move_entry(s, from_path, to_path) ==
    LET k == LocalKey(from_path)
        d == LocalKey(to_path)
    IN  IF /\ k \in AllPaths /\ d \in AllPaths /\ k # d
           /\ ~IsUnder(d, k) /\ ~IsUnder(k, d)
           /\ s.disk[k] # "none" /\ DiskKind(s.disk, Front(d)) = "dir"
        THEN Done([s EXCEPT !.disk = FsMove(@, k, d, "none"),
                            !.wr = Append(@, [op |-> "move", p |-> d, from |-> k])])
        ELSE Fail(s, "IoError")

\* touch_targets
RECURSIVE touch_targets(_, _)
touch_targets(s, update_targets) ==
    IF update_targets = <<>> THEN Done(s)
    ELSE LET e == Head(update_targets)[1]
         IN  IF ~upgrade(s.h, e) THEN touch_targets(s, Tail(update_targets))
             ELSE Let(get_path(s.h, e), LAMBDA path :
                  IF path.err # "" THEN Fail(s, path.err)
                  ELSE Let(touch_entry(s, path.val, is_file(s.h[e])), LAMBDA t :
                       touch_targets(
                           [t.s EXCEPT !.h[e].status =
                                           IF t.err = "" THEN "UpToDate" ELSE "Error"],
                           Tail(update_targets))))

\* EntryType::is_same_type
is_same_type(a, b) == a = b

\* try_fix_entry_type; val tells whether the entry has to be downloaded
try_fix_entry_type(s, target, path) ==
    LET flipped == IF is_file(s.h[target]) THEN "Directory" ELSE "File"
        unchanged == [err |-> "", s |-> s, val |-> FALSE]
    IN  Let(from_nc(s, path), LAMBDA nc_entry :
        IF nc_entry.err # "" THEN unchanged
        ELSE IF is_same_type(s.h[target].type_, nc_entry.val.type_) THEN unchanged
        ELSE Let(remove_entry([s EXCEPT !.h[target].status = "NeedUpdate",
                                        !.h[target].type_ = flipped,
                                        !.h[target].etag = NoEtag], path), LAMBDA rm :
             IF rm.err # "" THEN [err |-> rm.err, s |-> rm.s, val |-> FALSE]
             ELSE Let(touch_entry(rm.s, path, flipped = "File"), LAMBDA to :
                  IF to.err # "" THEN [err |-> to.err, s |-> to.s, val |-> FALSE]
                  ELSE [err |-> "", s |-> to.s, val |-> flipped = "File"])))

\* Entry::get_all_children, in the order the child map yields them
RECURSIVE get_all_children(_, _)
get_all_children(children, keys) ==
    IF keys = {} THEN <<>>
    ELSE LET k == CHOOSE x \in keys : TRUE
         IN  <<children[k]>> \o get_all_children(children, keys \ {k})

\* fix_entry_type_rec; the errors of the children are only logged
RECURSIVE fix_entry_type_rec(_, _, _)
RECURSIVE fix_entry_type_children(_, _, _)
fix_entry_type_rec(s, target, download_targets) ==
    Let(get_path(s.h, target), LAMBDA path :
    IF path.err # "" THEN [err |-> path.err, s |-> s, dts |-> download_targets]
    ELSE Let(try_fix_entry_type(s, target, path.val), LAMBDA fx :
         LET dts == IF fx.val THEN Append(download_targets, target) ELSE download_targets
             children == fx.s.h[target].children
         IN  IF fx.err # "" THEN [err |-> fx.err, s |-> fx.s, dts |-> download_targets]
             ELSE IF is_dir(fx.s.h[target])
             THEN fix_entry_type_children(
                      fx.s, get_all_children(children, DOMAIN children), dts)
             ELSE [err |-> "", s |-> fx.s, dts |-> dts]))

fix_entry_type_children(s, children, download_targets) ==
    IF children = <<>> THEN [err |-> "", s |-> s, dts |-> download_targets]
    ELSE IF upgrade(s.h, Head(children))
    THEN Let(fix_entry_type_rec(s, Head(children), download_targets), LAMBDA c :
             fix_entry_type_children(c.s, Tail(children), c.dts))
    ELSE fix_entry_type_children(s, Tail(children), download_targets)

\* get_all_sub_path: the target and what the server has under it, shortest
\* first; an unreachable server leaves the target alone
RECURSIVE SortByLen(_)
SortByLen(paths) ==
    IF paths = {} THEN <<>>
    ELSE LET p == CHOOSE x \in paths : \A y \in paths : Len(x) <= Len(y)
         IN  <<p>> \o SortByLen(paths \ {p})

get_all_sub_path(s, target) ==
    LET k == UrlKey(target)
        sub == IF s.net THEN {x \in AllPaths : IsUnder(x, k) /\ s.srv[x].kind # "none"}
               ELSE {}
    IN  SortByLen({target} \cup sub)


\* update_tree, one event after the other
RECURSIVE update_tree(_, _, _)
update_tree_create(s, path_, rest, download_targets) ==
    LET path == drop_slash(path_)
        type_ == IF ncpath_is_file(s, path) THEN "File" ELSE "Directory"
        new_entry == NewId(s.h)
    IN  IF ~judge(path_) THEN update_tree(s, rest, download_targets)
        ELSE Let(get(s.h, RootId, path), LAMBDA found :
        IF found.err # "" THEN Fail(s, found.err)
        ELSE IF found.val # NoEntry THEN update_tree(s, rest, download_targets)
        ELSE Let(append(Alloc(s.h, EntryNew(path2name(path), type_, NoEtag)), RootId, path,
                        new_entry, "Create", FALSE), LAMBDA ap :
             IF ap.err # "" THEN Fail([s EXCEPT !.h = ap.h], ap.err)
             ELSE Let(touch_targets([s EXCEPT !.h = ap.h], ap.new), LAMBDA tt :
                  IF is_file(tt.s.h[new_entry])
                  THEN update_tree([tt.s EXCEPT !.h[new_entry].status = "NeedUpdate"],
                                   rest, Append(download_targets, new_entry))
                  ELSE update_tree(tt.s, rest, download_targets))))

update_tree_delete(s, path_, rest, download_targets) ==
    LET path == drop_slash(path_)
    IN  IF ~judge(path_) THEN update_tree(s, rest, download_targets)
        ELSE Let(pop(s.h, RootId, path), LAMBDA pp :
             IF pp.err # "" THEN Fail([s EXCEPT !.h = pp.h], pp.err)
             ELSE update_tree(remove_entry([s EXCEPT !.h = pp.h], path).s, rest,
                              download_targets))

update_tree_modify(s, path_, rest, download_targets) ==
    LET path == drop_slash(path_)
    IN  IF ~judge(path_) THEN update_tree(s, rest, download_targets)
        ELSE Let(get(s.h, RootId, path), LAMBDA w :
             IF w.err # "" THEN Fail(s, w.err)
             ELSE IF w.val = NoEntry THEN update_tree(s, rest, download_targets)
             ELSE update_tree([s EXCEPT !.h[w.val].status = "NeedUpdate"], rest,
                              IF is_file(s.h[w.val]) THEN Append(download_targets, w.val)
                              ELSE download_targets))

update_tree_move(s, from_path_, to_path_, rest, download_targets) ==
    LET to_path == drop_slash(to_path_)
        from_path == drop_slash(from_path_)
        v == get_all_sub_path(s, to_path)
    IN  IF ~judge(to_path_) THEN update_tree(s, rest, download_targets)
        ELSE Let(pop(s.h, RootId, from_path), LAMBDA target_w :
        IF target_w.err # "" THEN Fail([s EXCEPT !.h = target_w.h], target_w.err)
        ELSE IF target_w.val = NoEntry
        THEN update_tree(s, [i \in 1..Len(v) |-> Create(v[i])] \o rest, download_targets)
        ELSE Let(append(target_w.h, RootId, to_path, target_w.val, "Move", TRUE), LAMBDA ap :
             IF ap.err # "" THEN Fail([s EXCEPT !.h = ap.h], ap.err)
             ELSE Let(touch_targets([s EXCEPT !.h = ap.h], ap.new), LAMBDA tt :
                  IF tt.err # "" THEN Fail(tt.s, tt.err)
                  ELSE Let(move_entry(tt.s, from_path, to_path), LAMBDA mv :
                       IF mv.err # "" THEN update_tree(mv.s, rest, download_targets)
                       ELSE Let(fix_entry_type_rec(mv.s, target_w.val, download_targets),
                                LAMBDA fx :
                                IF fx.err # "" THEN Fail(fx.s, fx.err)
                                ELSE update_tree(fx.s, rest, fx.dts))))))

update_tree(s, nc_events, download_targets) ==
    IF nc_events = <<>> THEN [err |-> "", s |-> s, dts |-> download_targets]
    ELSE LET event == Head(nc_events)
             rest == Tail(nc_events)
         IN  CASE event.k = "Create" -> update_tree_create(s, event.p, rest, download_targets)
               [] event.k = "Delete" -> update_tree_delete(s, event.p, rest, download_targets)
               [] event.k = "Modify" -> update_tree_modify(s, event.p, rest, download_targets)
               [] event.k = "Move" ->
                    update_tree_move(s, event.p, event.q, rest, download_targets)

\* fileope::save_file
save_file(s, filename) ==
    LET k == LocalKey(filename)
    IN  IF k \in AllPaths /\ DiskKind(s.disk, Front(k)) = "dir" /\ s.disk[k] # "dir"
        THEN Done(Wrote([s EXCEPT !.disk[k] = "file"], "download", filename))
        ELSE Fail(s, "IoError")

\* a variant of download_file_raw that keeps the etag of the answer after the
\* file has been saved
download_file_raw_save_first(s, entry, full_path) ==
    LET k == UrlKey(full_path)
    IN  IF is_dir(s.h[entry]) THEN Fail(s, "Not file entry!!")
        ELSE IF ~s.net THEN Fail(s, "RequestError")
        ELSE IF SrvKind(s.srv, k) # "file" THEN Fail(s, "Can't get new etag.")
        ELSE Let(save_file(s, full_path), LAMBDA sv :
                 IF sv.err # "" THEN sv
                 ELSE Done([sv.s EXCEPT !.h[entry].type_ = "File",
                                        !.h[entry].etag = s.srv[k].etag]))
\* download_file_raw: the etag of the answer is kept before the file is saved
download_file_raw(s, entry, full_path) ==
    LET k == UrlKey(full_path)
        s1 == [s EXCEPT !.h[entry].type_ = "File", !.h[entry].etag = s.srv[k].etag]
    IN  IF is_dir(s.h[entry]) THEN Fail(s, "Not file entry!!")
        ELSE IF ~s.net THEN Fail(s, "RequestError")
        ELSE IF SrvKind(s.srv, k) # "file" THEN Fail(s, "Can't get new etag.")
        ELSE save_file(s1, full_path)

\* download_file_with_check_etag; val is the path downloaded, NoPath for None
download_file_with_check_etag(s, entry) ==
    Let(get_path(s.h, entry), LAMBDA full_path :
    IF full_path.err # "" THEN [err |-> full_path.err, s |-> s, val |-> NoPath]
    ELSE Let(get_etag_from_nc(s, full_path.val), LAMBDA nc_etag :
         IF nc_etag # NoEtag /\ ~(is_file(s.h[entry]) /\ s.h[entry].etag = nc_etag)
         THEN Let(download_file_raw(s, entry, full_path.val), LAMBDA dl :
                  [err |-> dl.err, s |-> dl.s,
                   val |-> IF dl.err = "" THEN full_path.val ELSE NoPath])
         ELSE [err |-> "", s |-> s, val |-> NoPath]))

\* the downloads of update_and_download
RECURSIVE download_all(_, _)
download_all(s, download_targets) ==
    IF download_targets = <<>> THEN s
    ELSE LET e == Head(download_targets)
         IN  IF ~upgrade(s.h, e) \/ is_dir(s.h[e])
             THEN download_all(s, Tail(download_targets))
             ELSE Let(download_file_with_check_etag(s, e), LAMBDA r :
                  IF r.err # "" THEN download_all(r.s, Tail(download_targets))
                  ELSE download_all(
                           [r.s EXCEPT !.h[e].status = "UpToDate",
                                       !.n2l = IF r.val # NoPath THEN Bump(@, r.val) ELSE @],
                           Tail(download_targets)))

\* events.into_iter().filter(|ev| !l2nc_cancel_set.remove(ev)); dropped lists,
\* event by event, whether it has been filtered out (observation only)
RECURSIVE cancel_filter(_, _)
cancel_filter(events, l2n) ==
    IF events = <<>> THEN [events |-> <<>>, l2n |-> l2n, dropped |-> <<>>]
    ELSE LET ev == Head(events)
         IN  Let(cancel_filter(Tail(events), l2n \ {ev}), LAMBDA r :
                 [events |-> IF ev \in l2n THEN r.events ELSE <<ev>> \o r.events,
                  l2n |-> r.l2n,
                  dropped |-> <<ev \in l2n>> \o r.dropped])

\* update_and_download
update_and_download(s, events_) ==
    Let(cancel_filter(events_, s.l2n), LAMBDA f :
    Let(update_tree([s EXCEPT !.l2n = f.l2n, !.dropped = f.dropped], f.events, <<>>),
        LAMBDA ut :
        IF ut.err # "" THEN Fail(ut.s, ut.err)
        ELSE Done(download_all(ut.s, ut.dts))))

----------------------------------------------------------------------------
(* Local events (src/local_listen.rs)                                      *)

\* comm_nc of local_listen.rs: one PUT, MKCOL, DELETE or MOVE request; val is
\* the Etag header of the answer
comm_nc(s, method, target, to_target) ==
    IF ~s.net THEN [err |-> "RequestError", s |-> s, val |-> NoEtag]
    ELSE Let(CASE method = "Put" -> WebDavPut(s.srv, s.log, target, "engine")
               [] method = "Mkcol" -> WebDavMkcol(s.srv, s.log, target, "engine")
               [] method = "Delete" -> WebDavDelete(s.srv, s.log, target, "engine")
               [] method = "Move" -> WebDavMove(s.srv, s.log, target, to_target, "engine"),
             LAMBDA r :
             IF ~r.ok THEN [err |-> "BadStatusError", s |-> s, val |-> NoEtag]
             ELSE [err |-> "", s |-> [s EXCEPT !.srv = r.srv, !.log = r.log],
                   val |-> r.etag])

\* a variant of haveto_cancel_target that cancels the event and leaves the
\* counter as it is
haveto_cancel_target_keep(p, book) ==
    [val |-> path2str(p) \in DOMAIN book, book |-> book]
\* a variant of haveto_cancel_target that keeps the key when its counter has
\* reached zero
haveto_cancel_target_zero(p, book) ==
    LET path_str == path2str(p)
    IN  IF path_str \in DOMAIN book
        THEN [val |-> TRUE, book |-> [book EXCEPT ![path_str] = @ - 1]]
        ELSE [val |-> FALSE, book |-> book]
\* haveto_cancel_target: val tells whether the event is cancelled
haveto_cancel_target(p, book) ==
    LET path_str == path2str(p)
        rest == [x \in DOMAIN book \ {path_str} |-> book[x]]
    IN  IF path_str \in DOMAIN book
        THEN [val |-> TRUE,
              book |-> IF book[path_str] - 1 > 0
                       THEN [book EXCEPT ![path_str] = @ - 1] ELSE rest]
        ELSE [val |-> FALSE, book |-> book]

\* fs::read_dir: the items of a local directory
read_dir(dk, local_p) ==
    LET k == LocalKey(local_p)
    IN  {x \in AllPaths : Front(x) = k /\ dk[x] # "none"}

RECURSIVE deal_local_event(_, _)
RECURSIVE deal_local_children(_, _)

\* LocalEvent::Modify, after the PUT: the entry is a File of the new etag
uploaded_parent(h, e, etag) ==
    [h EXCEPT ![h[e].parent].type_ = "File", ![h[e].parent].etag = etag,
              ![e].status = "UpToDate"]
uploaded(h, e, etag) ==
    [h EXCEPT ![e].type_ = "File", ![e].etag = etag, ![e].status = "UpToDate"]

deal_local_modify(s, p) ==
    LET p_str == path2str(p)
    IN  IF ~judge(p) THEN Done(s)
        ELSE Let(haveto_cancel_target(p, s.n2l), LAMBDA c :
        Let([s EXCEPT !.n2l = c.book], LAMBDA s1 :
        IF c.val THEN Done(s1)
        ELSE IF DiskKind(s1.disk, p) = "none" THEN Done(s1)
        ELSE IF DiskKind(s1.disk, p) = "dir" THEN Done(s1)
        ELSE Let(get(s1.h, RootId, p_str), LAMBDA found :
        IF found.err # "" THEN Fail(s1, found.err)
        ELSE IF found.val = NoEntry THEN Done(s1)
        ELSE Let(comm_nc(s1, "Put", p_str, NoPath), LAMBDA put :
        IF put.err # "" THEN Fail(put.s, put.err)
        ELSE Let(get(put.s.h, RootId, p_str), LAMBDA entry_w :
        IF entry_w.err # "" THEN Fail(put.s, entry_w.err)
        ELSE Done([put.s EXCEPT
                      !.h = IF entry_w.val # NoEntry
                            THEN uploaded(@, entry_w.val, put.val) ELSE @,
                      !.l2n = @ \cup {Modify(p_str)}]))))))

deal_local_create(s, p) ==
    LET p_parent_str == path2str(PathParent(p))
        p_str == path2str(p)
    IN  IF ~judge(p) THEN Done(s)
        ELSE Let(haveto_cancel_target(p, s.n2l), LAMBDA c :
        Let([s EXCEPT !.n2l = c.book], LAMBDA s1 :
        IF c.val THEN Done(s1)
        ELSE IF DiskKind(s1.disk, p) = "none" THEN Done(s1)
        ELSE Let(get(s1.h, RootId, p_parent_str), LAMBDA parent :
        IF parent.err # "" THEN Fail(s1, parent.err)
        ELSE IF parent.val = NoEntry THEN Done(s1)
        ELSE Let(get(s1.h, RootId, p_str), LAMBDA found :
        IF found.err # "" THEN Fail(s1, found.err)
        ELSE IF found.val # NoEntry THEN deal_local_event(s1, Modify(p))
        ELSE Let(DiskKind(s1.disk, p) = "file", LAMBDA isfile :
        Let(comm_nc(s1, IF isfile THEN "Put" ELSE "Mkcol", p_str, NoPath), LAMBDA req :
        IF req.err # "" THEN Fail(req.s, req.err)
        ELSE Let(append(Alloc(req.s.h,
                              [EntryNew(FileName(p), IF isfile THEN "File" ELSE "Directory",
                                        IF isfile THEN req.val ELSE NoEtag)
                                  EXCEPT !.status = "UpToDate"]),
                        RootId, p_str, NewId(req.s.h), "Create", FALSE), LAMBDA ap :
        IF ap.err # "" THEN Fail([req.s EXCEPT !.h = ap.h], ap.err)
        ELSE Let([req.s EXCEPT !.h = ap.h, !.l2n = @ \cup {Create(p_str)}], LAMBDA s2 :
        IF isfile THEN Done(s2)
        ELSE deal_local_children(
                 s2, SortByLen({Cat(p_str, <<"">> \o FileName(x)) :
                                   x \in read_dir(s2.disk, p)}))))))))))

deal_local_children(s, items) ==
    IF items = <<>> THEN Done(s)
    ELSE Let(deal_local_event(s, Create(Head(items))), LAMBDA r :
             IF r.err # "" THEN r ELSE deal_local_children(r.s, Tail(items)))

\* a variant of deal_local_delete that takes the entry out of the tree before
\* it sends the request
deal_local_delete_pop_first(s, p) ==
    LET p_str == path2str(p)
    IN  IF ~judge(p) THEN Done(s)
        ELSE IF DiskKind(s.disk, p) # "none" THEN Done(s)
        ELSE Let(get(s.h, RootId, p_str), LAMBDA found :
        IF found.err # "" THEN Fail(s, found.err)
        ELSE IF found.val = NoEntry THEN Done(s)
        ELSE Let(pop(s.h, RootId, p_str), LAMBDA pp :
        IF pp.err # "" THEN Fail([s EXCEPT !.h = pp.h], pp.err)
        ELSE Let(comm_nc([s EXCEPT !.h = pp.h], "Delete", p_str, NoPath), LAMBDA req :
        IF req.err # "" THEN Fail(req.s, req.err)
        ELSE Done([req.s EXCEPT !.l2n = @ \cup {Delete(p_str)}]))))
deal_local_delete(s, p) ==
    LET p_str == path2str(p)
    IN  IF ~judge(p) THEN Done(s)
        ELSE IF DiskKind(s.disk, p) # "none" THEN Done(s)
        ELSE Let(get(s.h, RootId, p_str), LAMBDA found :
        IF found.err # "" THEN Fail(s, found.err)
        ELSE IF found.val = NoEntry THEN Done(s)
        ELSE Let(comm_nc(s, "Delete", p_str, NoPath), LAMBDA req :
        IF req.err # "" THEN Fail(req.s, req.err)
        ELSE Let(pop(req.s.h, RootId, p_str), LAMBDA pp :
        IF pp.err # "" THEN Fail([req.s EXCEPT !.h = pp.h], pp.err)
        ELSE Done([req.s EXCEPT !.h = pp.h, !.l2n = @ \cup {Delete(p_str)}]))))

\* a variant of deal_local_move that takes the excluded side for the other one
\* and drops the move of two accepted paths
deal_local_move_exchanged(s, p, q) ==
    IF DiskKind(s.disk, p) # "none" THEN Done(s)
    ELSE IF ~judge(p) /\ ~judge(q) THEN Done(s)
    ELSE IF ~judge(p) THEN deal_local_event(s, Delete(p))
    ELSE IF ~judge(q) THEN deal_local_event(s, Create(q))
    ELSE Done(s)
deal_local_move_plain_target(s, p, q) ==
    LET p_str == path2str(p)
        q_str == path2str(q)
    IN  IF DiskKind(s.disk, p) # "none" \/ ~judge(p) \/ ~judge(q) THEN Done(s)
        ELSE Let(get(s.h, RootId, p_str), LAMBDA found :
        IF found.err # "" THEN Fail(s, found.err)
        ELSE IF found.val = NoEntry THEN Done(s)
        ELSE Let(comm_nc(s, "Move", p_str, q_str), LAMBDA req :
        IF req.err # "" THEN Fail(req.s, req.err)
        ELSE Let(pop(req.s.h, RootId, p_str), LAMBDA pp :
        IF pp.err # "" \/ pp.val = NoEntry THEN Fail(req.s, "InvalidPathError")
        ELSE Let(append(pp.h, RootId, q_str, pp.val, "Move", TRUE), LAMBDA ap :
        IF ap.err # "" THEN Fail([req.s EXCEPT !.h = ap.h], ap.err)
        ELSE Done([req.s EXCEPT !.h = ap.h, !.l2n = @ \cup {Move(p_str, q_str)}])))))
deal_local_move(s, p, q) ==
    LET p_is_exc == ~judge(p)
        q_is_exc == ~judge(q)
        p_str == path2str(p)
        q_str == path2str(q)
        cancel_target == IF FileName(p) = FileName(q)
                         THEN Move(p_str, path2str(PathParent(q)))
                         ELSE Move(p_str, q_str)
    IN  IF DiskKind(s.disk, p) # "none" THEN Done(s)
        ELSE IF p_is_exc /\ q_is_exc THEN Done(s)
        ELSE IF p_is_exc THEN deal_local_event(s, Create(q))
        ELSE IF q_is_exc THEN deal_local_event(s, Delete(p))
        ELSE Let(get(s.h, RootId, p_str), LAMBDA found :
        IF found.err # "" THEN Fail(s, found.err)
        ELSE IF found.val = NoEntry THEN Done(s)
        ELSE Let(comm_nc(s, "Move", p_str, q_str), LAMBDA req :
        IF req.err # "" THEN Fail(req.s, req.err)
        ELSE Let(pop(req.s.h, RootId, p_str), LAMBDA pp :
        IF pp.err # "" THEN Fail([req.s EXCEPT !.h = pp.h], pp.err)
        ELSE IF pp.val = NoEntry THEN Fail(req.s, "InvalidPathError")
        ELSE Let(append(pp.h, RootId, q_str, pp.val, "Move", TRUE), LAMBDA ap :
        IF ap.err # "" THEN Fail([req.s EXCEPT !.h = ap.h], ap.err)
        ELSE Done([req.s EXCEPT !.h = ap.h, !.l2n = @ \cup {cancel_target}])))))

deal_local_event(s, ev) ==
    CASE ev.k = "Create" -> deal_local_create(s, ev.p)
      [] ev.k = "Delete" -> deal_local_delete(s, ev.p)
      [] ev.k = "Modify" -> deal_local_modify(s, ev.p)
      [] ev.k = "Move" -> deal_local_move(s, ev.p, ev.q)

----------------------------------------------------------------------------
(* Repair (src/repair.rs)                                                  *)

\* get_ncevents: the activities after the cursor and the new cursor
get_ncevents(s, latest_activity_id) ==
    IF ~s.net THEN [err |-> "RequestError", events |-> <<>>, by |-> <<>>,
                    latest_activity_id |-> latest_activity_id]
    ELSE [err |-> "",
          events |-> [i \in 1..(Len(s.log) - latest_activity_id) |->
                         s.log[latest_activity_id + i].ev],
          by |-> [i \in 1..(Len(s.log) - latest_activity_id) |->
                         s.log[latest_activity_id + i].by],
          latest_activity_id |-> Len(s.log)]

\* ModifiedPath::to_modified_path and get_modified_path_vec
to_modified_path_of_all(ev) == IF ev.k = "Move" THEN ev.q ELSE ev.p
to_modified_path(ev) ==
    CASE ev.k = "Create" -> ev.p
      [] ev.k = "Delete" -> NoPath
      [] ev.k = "Modify" -> ev.p
      [] ev.k = "Move" -> ev.q

get_modified_path_vec(events) ==
    SelectSeq([i \in 1..Len(events) |-> to_modified_path(events[i])],
              LAMBDA p : p # NoPath)

\* Entry::get_raw_name and Entry::get_child
get_raw_name(e) == e.name
get_child(h, e, name) ==
    LET found == {k \in DOMAIN h[e].children : get_raw_name(h[h[e].children[k]]) = name}
    IN  IF found = {} THEN NoEntry ELSE h[e].children[CHOOSE k \in found : TRUE]

\* from_nc_all("/"): a new tree of what the server has
RECURSIVE get_children_rec(_, _, _)
get_children_rec(h, sv, paths) ==
    IF paths = <<>> THEN h
    ELSE LET path == Head(paths)
             e == EntryNew(FileName(path),
                           IF sv[path].kind = "dir" THEN "Directory" ELSE "File",
                           sv[path].etag)
         IN  Let(get(h, RootId, add_last_slash(Front(path))).val, LAMBDA parent :
                 IF parent = NoEntry THEN get_children_rec(h, sv, Tail(paths))
                 ELSE get_children_rec(append_child(Alloc(h, e), parent, NewId(h)), sv,
                                       Tail(paths)))

from_nc_all(s) ==
    LET top_entry == [i \in {RootId} |-> EntryNew(EmptyStr, "Directory", NoEtag)]
    IN  IF ~s.net THEN [err |-> "RequestError", h |-> top_entry]
        ELSE [err |-> "",
              h |-> get_children_rec(top_entry, s.srv,
                        SortByLen({x \in AllPaths : s.srv[x].kind # "none" /\ judge(x)}))]

\* format!("{}/{}", ancestor, name)
SlashJoin(ancestor, name) == Cat(Cat(ancestor, RootPath), name)

\* a directory of the tree is made on disk where it is missing, in place of a
\* file of its name if there is one; val tells whether the disk has changed
make_dir(s, path_s) ==
    IF DiskKind(s.disk, path_s) = "dir" THEN [err |-> "", s |-> s, val |-> FALSE]
    ELSE Let(remove_entry(s, path_s), LAMBDA rm :
         IF rm.err # "" THEN [err |-> "IoError", s |-> s, val |-> FALSE]
         ELSE Let(create_dir_all(rm.s.disk, LocalKey(path_s)), LAMBDA mk :
              IF ~mk.ok THEN [err |-> "IoError", s |-> s, val |-> FALSE]
              ELSE [err |-> "", s |-> Wrote([rm.s EXCEPT !.disk = mk.disk], "touch", path_s),
                    val |-> TRUE]))

\* check_exists_rec
RECURSIVE check_exists_rec(_, _, _, _)
RECURSIVE check_exists_children(_, _, _, _)
check_exists_rec(s, ancestor, entry, download_list) ==
    LET name == get_raw_name(s.h[entry])
        path_s == SlashJoin(ancestor, name)
    IN  IF ~judge(name) THEN [err |-> "", s |-> s, download_list |-> download_list]
        ELSE Let([s EXCEPT !.h[entry].status = "UpToDate"], LAMBDA s1 :
        IF is_dir(s1.h[entry])
        THEN Let(make_dir(s1, path_s), LAMBDA md :
             IF md.err # "" THEN Fail(s1, md.err)
             ELSE Let(check_exists_children(
                          md.s, path_s,
                          get_all_children(md.s.h[entry].children,
                                           DOMAIN md.s.h[entry].children),
                          download_list), LAMBDA ch :
                  IF ch.err # "" THEN ch
                  ELSE IF md.val THEN [ch EXCEPT !.s.n2l = Bump(@, path_s)]
                  ELSE ch))
        ELSE IF DiskKind(s1.disk, path_s) = "none"
        THEN [err |-> "",
              s |-> [s1 EXCEPT !.h[entry].etag = NoEtag, !.h[entry].status = "NeedUpdate",
                               !.n2l = Bump(@, path_s)],
              download_list |-> Append(download_list, entry)]
        ELSE [err |-> "", s |-> s1, download_list |-> download_list])

check_exists_children(s, path_s, children, download_list) ==
    IF children = <<>> THEN [err |-> "", s |-> s, download_list |-> download_list]
    ELSE Let(check_exists_rec(s, path_s, Head(children), download_list), LAMBDA c :
             IF c.err # "" THEN c
             ELSE check_exists_children(c.s, path_s, Tail(children), c.download_list))

\* choose_leave_dirfile_rec
RECURSIVE remove_unnecessary(_, _, _, _)
remove_unnecessary(s, entry, path_s, items) ==
    IF items = {} THEN Done(s)
    ELSE LET child_path == CHOOSE x \in items : TRUE
             c_name == FileName(child_path)
         IN  IF judge(c_name) /\ get_child(s.h, entry, c_name) = NoEntry
             THEN Let(remove_entry(s, child_path), LAMBDA rm :
                      IF rm.err # "" THEN rm
                      ELSE remove_unnecessary(rm.s, entry, path_s, items \ {child_path}))
             ELSE remove_unnecessary(s, entry, path_s, items \ {child_path})

RECURSIVE choose_leave_dirfile_rec(_, _, _, _)
RECURSIVE choose_leave_children(_, _, _, _)
choose_leave_dirfile_rec(s, ancestor, entry, download_list) ==
    LET name == get_raw_name(s.h[entry])
        path_s == SlashJoin(ancestor, name)
    IN  IF ~judge(name) THEN [err |-> "", s |-> s, download_list |-> download_list]
        ELSE Let([s EXCEPT !.h[entry].status = "UpToDate"], LAMBDA s1 :
        IF is_dir(s1.h[entry])
        THEN Let(make_dir(s1, path_s), LAMBDA md :
             IF md.err # "" THEN Fail(s1, md.err)
             ELSE Let(remove_unnecessary(md.s, entry, path_s, read_dir(md.s.disk, path_s)),
                      LAMBDA un :
                      IF un.err # "" THEN Fail(un.s, un.err)
                      ELSE choose_leave_children(
                               un.s, path_s,
                               get_all_children(un.s.h[entry].children,
                                                DOMAIN un.s.h[entry].children),
                               download_list)))
        ELSE IF DiskKind(s1.disk, path_s) = "none"
        THEN [err |-> "",
              s |-> [s1 EXCEPT !.h[entry].etag = NoEtag, !.h[entry].status = "NeedUpdate"],
              download_list |-> Append(download_list, entry)]
        ELSE [err |-> "", s |-> s1, download_list |-> download_list])

choose_leave_children(s, path_s, children, download_list) ==
    IF children = <<>> THEN [err |-> "", s |-> s, download_list |-> download_list]
    ELSE Let(choose_leave_dirfile_rec(s, path_s, Head(children), download_list), LAMBDA c :
             IF c.err # "" THEN c
             ELSE choose_leave_children(c.s, path_s, Tail(children), c.download_list))

\* the downloads of the repairs: an error ends the repair
RECURSIVE download_list_all(_, _)
download_list_all(s, download_list) ==
    IF download_list = <<>> THEN Done(s)
    ELSE IF ~upgrade(s.h, Head(download_list))
    THEN download_list_all(s, Tail(download_list))
    ELSE Let(download_file_with_check_etag(s, Head(download_list)), LAMBDA r :
             IF r.err # "" THEN Fail(r.s, r.err)
             ELSE download_list_all(r.s, Tail(download_list)))

\* the entries of the new tree at the modified paths of the events
RECURSIVE modified_entries(_, _)
modified_entries(h, paths) ==
    IF paths = <<>> THEN <<>>
    ELSE Let(get(h, RootId, Head(paths)), LAMBDA w :
             IF w.err = "" /\ w.val # NoEntry
             THEN <<w.val>> \o modified_entries(h, Tail(paths))
             ELSE modified_entries(h, Tail(paths)))

\* normal_repair: the tree is replaced once everything has succeeded
normal_repair(s, events) ==
    Let(from_nc_all(s), LAMBDA root_entry :
    IF root_entry.err # "" THEN Fail(s, root_entry.err)
    ELSE Let(choose_leave_dirfile_rec(
                 [s EXCEPT !.h = root_entry.h], EmptyStr, RootId,
                 modified_entries(root_entry.h, get_modified_path_vec(events))),
             LAMBDA cl :
             IF cl.err # "" THEN Fail([cl.s EXCEPT !.h = s.h], cl.err)
             ELSE Let(download_list_all(cl.s, cl.download_list), LAMBDA dl :
                  IF dl.err # "" THEN Fail([dl.s EXCEPT !.h = s.h], dl.err)
                  ELSE Done([dl.s EXCEPT !.nc_state = Len(s.log)]))))

\* the commands soft_repair sends for the events buffered while offline
RECURSIVE replay_commands(_, _)
replay_commands(s, paths) ==
    IF paths = <<>> THEN [err |-> "", coms |-> <<>>]
    ELSE LET p == Head(paths)
         IN  IF DiskKind(s.disk, p) = "none" THEN replay_commands(s, Tail(paths))
             ELSE Let(get(s.h, RootId, path2str(p)), LAMBDA found :
                  IF found.err # "" THEN [err |-> found.err, coms |-> <<>>]
                  ELSE Let(replay_commands(s, Tail(paths)), LAMBDA rest :
                       [err |-> rest.err,
                        coms |-> <<LocEvent(IF found.val # NoEntry THEN Modify(p)
                                            ELSE Create(p))>> \o rest.coms]))

\* soft_repair; val is have_to_rerun, coms the commands it has sent
RepairFail(s, e) == [err |-> e, s |-> s, val |-> FALSE, coms |-> <<>>]

soft_repair(s, local_events) ==
    Let(get_ncevents(s, s.nc_state), LAMBDA events :
    IF events.err # "" THEN RepairFail(s, events.err)
    ELSE Let(update_and_download([s EXCEPT !.nc_state = events.latest_activity_id],
                                 events.events), LAMBDA res :
    IF res.err # ""
    THEN Let(normal_repair([res.s EXCEPT !.n2l = <<>>, !.l2n = {}], events.events),
             LAMBDA nr :
             IF nr.err # "" THEN RepairFail(nr.s, nr.err)
             ELSE [err |-> "", s |-> nr.s, val |-> TRUE, coms |-> <<>>])
    ELSE Let(check_exists_rec(res.s, EmptyStr, RootId, <<>>), LAMBDA ce :
    IF ce.err # "" THEN RepairFail(ce.s, ce.err)
    ELSE Let(download_list_all(ce.s, ce.download_list), LAMBDA dl :
    IF dl.err # "" THEN RepairFail(dl.s, dl.err)
    ELSE Let(replay_commands(dl.s, get_modified_path_vec(local_events)), LAMBDA rp :
    IF rp.err # "" THEN RepairFail(dl.s, rp.err)
    ELSE [err |-> "", s |-> dl.s, val |-> FALSE, coms |-> rp.coms])))))

\* init_local_entries: the directories of the new tree are made and its files
\* downloaded; an entry that is UpToDate is left alone with all below it
RECURSIVE init_local_entries(_, _, _)
RECURSIVE init_local_children(_, _, _, _)
init_local_children(s, entry, keys, full_path) ==
    IF keys = {} THEN Done(s)
    ELSE LET k == CHOOSE x \in keys : TRUE
         IN  Let(init_local_entries(s, s.h[entry].children[k], full_path), LAMBDA r :
                 IF r.err # "" THEN r
                 ELSE init_local_children(r.s, entry, keys \ {k}, full_path))

init_local_entries(s, entry, ancestor_path) ==
    IF s.h[entry].status = "UpToDate" THEN Done(s)
    ELSE LET full_path == Cat(ancestor_path, get_name(s.h[entry]))
         IN  IF is_dir(s.h[entry])
             THEN Let(create_dir_all(s.disk, LocalKey(full_path)), LAMBDA cd :
                  IF ~cd.ok THEN Fail(s, "IoError")
                  ELSE init_local_children(
                           [s EXCEPT !.disk = cd.disk, !.h[entry].status = "UpToDate"],
                           entry, DOMAIN s.h[entry].children, full_path))
             ELSE Let(create_dir_all(s.disk, LocalKey(ancestor_path)), LAMBDA cd :
                  IF ~cd.ok THEN Fail(s, "IoError")
                  ELSE Let(download_file_raw([s EXCEPT !.disk = cd.disk], entry, full_path),
                           LAMBDA dl :
                           IF dl.err # ""
                           THEN Fail([dl.s EXCEPT !.h[entry].status = "Error"], dl.err)
                           ELSE Done([dl.s EXCEPT !.h[entry].status = "UpToDate"])))

\* init: the tree of the server, the latest activity id, and the local copy
init(s) ==
    Let(from_nc_all(s), LAMBDA root_entry :
    IF root_entry.err # "" THEN Fail(s, root_entry.err)
    ELSE Let(get_ncevents(s, 0), LAMBDA latest :
         IF latest.err # "" THEN Fail(s, latest.err)
         ELSE Let(init_local_entries([s EXCEPT !.h = root_entry.h,
                                               !.nc_state = latest.latest_activity_id],
                                     RootId, EmptyStr),
                  LAMBDA r : r)))

all_delete_nothing(dk) == dk
\* all_delete: everything under the local root is removed
all_delete(dk) == [x \in AllPaths |-> "none"]

----------------------------------------------------------------------------
(* The tasks of run() (src/main.rs) and their environment                  *)

\* the environment takes at most this many steps
MaxEnv == 2
\* the producers wait while this many commands are queued
MaxQueue == 2

\* tx.send(com).await of the replay: the commands the channel of MaxQueue
\* places still takes; a send to a full channel waits for the receiver, which
\* is the dispatcher that sends
send_room(queue) == IF Len(queue) < MaxQueue THEN MaxQueue - Len(queue) ELSE 0

\* nclistening(): network::check, then sleep and continue when offline
check_silent(q, online) == q
check(q, online) == Append(q, [c |-> IF online THEN "NetworkConnect" ELSE "NetworkDisconnect"])

EmptyMap == <<>>

\* the state the handlers work on
Here ==
    [h |-> ent, n2l |-> nc2l_cancel_map, l2n |-> l2nc_cancel_set, nc_state |-> nc_state,
     disk |-> disk, srv |-> srv, log |-> log, net |-> net, wr |-> <<>>, dropped |-> <<>>]

\* what nclistening sends while soft_repair awaits the server: nothing, or the
\* commands of its next checks while the channel has room for them; between
\* two checks of a server that is reached lies a pull that finds no event
meanwhile(queue) ==
    LET one == check(<<>>, net)
        pull == get_ncevents(Here, poll_state)
        idle == pull.err = "" /\ Len(pull.events) = 0
                    /\ pull.latest_activity_id = poll_state
    IN  {<<>>}
        \cup (IF poll_pc = "check" /\ Len(queue) < MaxQueue THEN {one} ELSE {})
        \cup (IF poll_pc = "check" /\ Len(queue) + 1 < MaxQueue /\ (~net \/ idle)
              THEN {one \o one} ELSE {})

\* what the last step did: the handler or task, its error, the batch it was
\* given and who caused each event of it, the events it dropped as echoes, its
\* writes under the local root, the commands it sent, the number of entries an
\* append reported as newly materialised and the number of times a task tried
\* to send Terminate(true); ln is the line the control task has read; arg and
\* ret are the argument and the result of a function applied on its own
NoOp ==
    [op |-> "init", err |-> "", events |-> <<>>, by |-> <<>>, dropped |-> <<>>,
     wr |-> <<>>, coms |-> <<>>, new |-> 0, sends |-> 0, ln |-> "",
     arg |-> <<>>, ret |-> FALSE]
Did(op, err) == [NoOp EXCEPT !.op = op, !.err = err]
Obs(op, err, s) == [NoOp EXCEPT !.op = op, !.err = err, !.dropped = s.dropped, !.wr = s.wr]

\* watching(): one file system event becomes one LocEvent; a Write counts only
\* when the path is a file by then
watching(dk, ev) ==
    CASE ev.k = "Create" -> <<LocEvent(Create(ev.p))>>
      [] ev.k = "Write" -> IF DiskKind(dk, ev.p) = "file"
                           THEN <<LocEvent(Modify(ev.p))>> ELSE <<>>
      [] ev.k = "Remove" -> <<LocEvent(Delete(ev.p))>>
      [] ev.k = "Rename" -> <<LocEvent(Move(ev.p, ev.q))>>
      [] OTHER -> <<>>

\* the events that arrive together: a Remove with a Create right behind it is
\* taken for a Move
RECURSIVE watching_all(_, _)
watching_all(dk, evs) ==
    IF evs = <<>> THEN <<>>
    ELSE IF Len(evs) > 1 /\ evs[1].k = "Remove" /\ evs[2].k = "Create"
    THEN <<LocEvent(Move(evs[1].p, evs[2].p))>> \o watching_all(dk, Tail(Tail(evs)))
    ELSE watching(dk, Head(evs)) \o watching_all(dk, Tail(evs))

\* watching(), one turn of its loop on the channel rcv of the watcher: each
\* element of rcv is an event ev and whether it comes late, more than 10 ms
\* behind the one before it. A Remove waits 10 ms for the next event: a Create
\* makes a Move of the two, nothing makes a Delete, and anything else makes a
\* Delete and goes back on the stack. items are the commands sent, rx is what
\* the channel still holds.
watching_stack_dropping(dk, ev, rcv) ==
    IF ev.k # "Remove" THEN [items |-> watching(dk, ev), rx |-> rcv]
    ELSE IF rcv = <<>> \/ Head(rcv).late
    THEN [items |-> <<LocEvent(Delete(ev.p))>>, rx |-> rcv]
    ELSE IF Head(rcv).ev.k = "Create"
    THEN [items |-> <<LocEvent(Move(ev.p, Head(rcv).ev.p))>>, rx |-> Tail(rcv)]
    ELSE [items |-> <<LocEvent(Delete(ev.p))>>, rx |-> Tail(rcv)]

RECURSIVE watching_stack(_, _, _)
watching_stack(dk, ev, rcv) ==
    IF ev.k # "Remove" THEN [items |-> watching(dk, ev), rx |-> rcv]
    ELSE IF rcv = <<>> \/ Head(rcv).late
    THEN [items |-> <<LocEvent(Delete(ev.p))>>, rx |-> rcv]
    ELSE IF Head(rcv).ev.k = "Create"
    THEN [items |-> <<LocEvent(Move(ev.p, Head(rcv).ev.p))>>, rx |-> Tail(rcv)]
    ELSE Let(watching_stack(dk, Head(rcv).ev, Tail(rcv)), LAMBDA r :
             [items |-> <<LocEvent(Delete(ev.p))>> \o r.items, rx |-> r.rx])

watching_loop(dk, rcv) == watching_stack(dk, Head(rcv).ev, Tail(rcv))

\* the events the watcher is told about the writes of a handler, and the
\* commands it sends for them
Echo(before, wr) ==
    [i \in 1..Len(wr) |->
        CASE wr[i].op = "download" ->
               [k |-> IF before[wr[i].p] = "file" THEN "Write" ELSE "Create",
                p |-> wr[i].p, q |-> NoPath]
          [] wr[i].op = "touch" -> [k |-> "Create", p |-> wr[i].p, q |-> NoPath]
          [] wr[i].op = "remove" -> [k |-> "Remove", p |-> wr[i].p, q |-> NoPath]
          [] wr[i].op = "move" -> [k |-> "Rename", p |-> wr[i].from, q |-> wr[i].p]]

\* the watcher is a debounced one (main.rs, watcher(tx, 5 s)): the creation of a
\* file and the writes that follow it at once are one event
RECURSIVE Debounce(_, _)
Debounce(wr, i) ==
    IF i > Len(wr) THEN <<>>
    ELSE IF /\ wr[i].op = "download"
            /\ \E j \in 1..(i - 1) : wr[j].op \in {"touch", "download"} /\ wr[j].p = wr[i].p
         THEN Debounce(wr, i + 1)
         ELSE <<wr[i]>> \o Debounce(wr, i + 1)

Echoes(s) == watching_all(s.disk, Echo(disk, Debounce(s.wr, 1)))

Commit(s) ==
    /\ ent' = Collect(s.h)
    /\ nc2l_cancel_map' = s.n2l
    /\ l2nc_cancel_set' = s.l2n
    /\ nc_state' = s.nc_state
    /\ disk' = s.disk
    /\ srv' = s.srv
    /\ log' = s.log

----------------------------------------------------------------------------
(* The cache file (src/meta.rs)                                            *)

EmptyEtag == -1           \* EntryType::File { etag: Some("") }

\* EntryType::get_etag
get_etag(e) == IF is_file(e) /\ e.etag # NoEtag THEN e.etag ELSE EmptyEtag

\* JsonEntry::File { name, etag } and JsonEntry::Dir { name, children }, the
\* field a variant does not have left empty; the children are kept as a set,
\* their order in the Vec being the iteration order of the HashMap
JsonFile(name, etag) == [type |-> "File", name |-> name, etag |-> etag, children |-> {}]
JsonDir(name, children) ==
    [type |-> "Dir", name |-> name, etag |-> EmptyEtag, children |-> children]

RECURSIVE entry2json_entry_rec(_, _)
entry2json_entry_rec(h, entry) ==
    IF is_file(h[entry])
    THEN JsonFile(get_name(h[entry]), get_etag(h[entry]))
    ELSE JsonDir(get_name(h[entry]),
                 {entry2json_entry_rec(h, h[entry].children[k]) :
                      k \in DOMAIN h[entry].children})

root2json_entry(h, root_entry) ==
    IF ~is_root(h[root_entry])
    THEN [err |-> "not root", val |-> JsonFile(EmptyStr, EmptyEtag)]
    ELSE [err |-> "", val |-> entry2json_entry_rec(h, root_entry)]

\* json_entry2entry builds the entry of json_entry in the heap h; val is its handle
RECURSIVE json_entry2entry(_, _)
RECURSIVE json_children(_, _, _)
json_children(h, dir, children) ==
    IF children = {} THEN h
    ELSE LET child == CHOOSE c \in children : TRUE
             r == json_entry2entry(h, child)
         IN  json_children(append_child(r.h, dir, r.val), dir, children \ {child})

json_entry2entry(h, json_entry) ==
    LET dir == NewId(h)
    IN  IF json_entry.type = "Dir"
        THEN [h |-> json_children(
                        Alloc(h, [EntryNew(json_entry.name, "Directory", NoEtag)
                                     EXCEPT !.status = "UpToDate"]),
                        dir, json_entry.children),
              val |-> dir]
        ELSE [h |-> Alloc(h, [EntryNew(json_entry.name, "File", json_entry.etag)
                                 EXCEPT !.status = "UpToDate"]),
              val |-> dir]

\* what the server and the disk hold when run() starts, and the cached tree
InitSrv ==
    [x \in AllPaths |-> IF x = PathD THEN [kind |-> "dir", etag |-> NoEtag]
                        ELSE IF x = PathDA THEN [kind |-> "file", etag |-> InitEtag]
                        ELSE NoFile]

RootEntry == [EntryNew(EmptyStr, "Directory", NoEtag) EXCEPT !.status = "UpToDate"]

\* the tree run() builds from the cache file: every entry is UpToDate
load_cache(sv) ==
    LET h == get_children_rec([i \in {RootId} |-> RootEntry], sv,
                 SortByLen({x \in AllPaths : sv[x].kind # "none"}))
    IN  [i \in DOMAIN h |-> [h[i] EXCEPT !.status = "UpToDate"]]

\* NCState::eq_or_newer_than
eq_or_newer_than_reversed(self, other) == self <= other
eq_or_newer_than(self, other) == other <= self

\* Vec::push
push_front(que, ev) == <<ev>> \o que
push(que, ev) == Append(que, ev)

Running == run_state = "loop"
\* run() has left the loop: both watchers are dropped, com_rx is closed and the
\* producer tasks are awaited
Closed == run_state \in {"await", "await_hard"}
\* a return out of the loop by `?`
Exit(result, r) == run_state' = result /\ retry' = r
Break_keeping_retry(r) == run_state' = "await" /\ retry' = retry
\* break: drop(root_watcher), drop(meta_watcher), com_rx.close()
Break(r) == run_state' = "await" /\ retry' = r

\* the cache file: save_cache of root2json_entry(root) and latest_activity_id
NoCache == [exists |-> FALSE, root_entry |-> JsonDir(EmptyStr, {}), latest_activity_id |-> 0]
save_cache(h, latest_activity_id) ==
    [exists |-> TRUE, root_entry |-> root2json_entry(h, RootId).val,
     latest_activity_id |-> latest_activity_id]

UnitVars == <<rx, exc_checker, activity_api>>
RunVars == <<watch_pc, meta_pc, cache, UnitVars>>

Init ==
    /\ ent = Collect(load_cache(InitSrv))
    /\ last = NoOp
    /\ nc_state = 0
    /\ poll_state = 0
    /\ net \in BOOLEAN
    /\ network_status = IF net THEN "Connect" ELSE "Disconnect"
    /\ nc2l_cancel_map = EmptyMap
    /\ l2nc_cancel_set = {}
    /\ offline_locevent_que = <<>>
    /\ com_q = <<>>
    /\ run_state = "loop"
    /\ retry = FALSE
    /\ poll_pc = "check"
    /\ control_pc = "read"
    /\ watch_pc = "run"
    /\ meta_pc = "run"
    /\ cache = save_cache(ent, nc_state)
    /\ rx = <<>>
    /\ exc_checker = DefaultChecker
    /\ activity_api = <<>>
    /\ srv = InitSrv
    /\ log = <<>>
    /\ disk = [x \in AllPaths |-> InitSrv[x].kind]
    /\ env_steps = 0

Receives(c) == Running /\ com_q # <<>> /\ Head(com_q).c = c

HandlerVars == <<ent, nc2l_cancel_map, l2nc_cancel_set, nc_state, disk, srv, log>>
TaskVars == <<poll_pc, poll_state, control_pc, net, env_steps>>

\* terminate_send!: Terminate(true) is sent until a send succeeds or the
\* counter of failed sends exceeds 3; a send fails when com_rx is closed
RECURSIVE terminate_send(_, _)
terminate_send(counter, closed) ==
    IF ~closed THEN [sends |-> 1, sent |-> TRUE]
    ELSE IF counter + 1 > 3 THEN [sends |-> 1, sent |-> FALSE]
    ELSE [sends |-> 1 + terminate_send(counter + 1, closed).sends, sent |-> FALSE]


\* run(): Command::LocEvent
DispatchLocEvent ==
    /\ Receives("LocEvent")
    /\ LET ev == Head(com_q).ev
       IN  IF network_status = "Connect"
           THEN \E res \in {deal_local_event(Here, ev)} :
                /\ Commit(res.s)
                /\ com_q' = Tail(com_q) \o Echoes(res.s)
                /\ last' = [Obs("LocEvent", res.err, res.s) EXCEPT !.events = <<ev>>]
                /\ UNCHANGED offline_locevent_que
           ELSE /\ offline_locevent_que' = push(offline_locevent_que, ev)
                /\ com_q' = Tail(com_q)
                /\ last' = [Did("LocEvent:offline", "") EXCEPT !.events = <<ev>>]
                /\ UNCHANGED HandlerVars
    /\ UNCHANGED <<network_status, run_state, retry, TaskVars, RunVars>>

\* run(): Command::NCEvents
DispatchNCEvents ==
    /\ Receives("NCEvents")
    /\ LET e == Head(com_q)
       IN  IF network_status = "Connect"
           THEN IF eq_or_newer_than(nc_state, e.state)
                THEN /\ last' = [Did("NCEvents:older", "") EXCEPT !.events = e.events,
                                                                   !.by = e.by]
                     /\ com_q' = Tail(com_q)
                     /\ UNCHANGED HandlerVars
                ELSE \E res \in {update_and_download([Here EXCEPT !.nc_state = e.state],
                                                      e.events)} :
                     /\ Commit(res.s)
                     /\ com_q' = Tail(com_q) \o Echoes(res.s)
                     /\ last' = [Obs("NCEvents", res.err, res.s) EXCEPT !.events = e.events,
                                                                       !.by = e.by]
           ELSE /\ last' = Did("NCEvents:offline", "")
                /\ com_q' = Tail(com_q)
                /\ UNCHANGED HandlerVars
    /\ UNCHANGED <<network_status, offline_locevent_que, run_state, retry, TaskVars,
                   RunVars>>

\* run(): Command::UpdateExcFile | Command::UpdateConfigFile
DispatchUpdateFile ==
    /\ Receives("UpdateExcFile") \/ Receives("UpdateConfigFile")
    /\ Break(TRUE)
    /\ com_q' = Tail(com_q)
    /\ last' = Did("UpdateFile", "")
    /\ UNCHANGED <<HandlerVars, network_status, offline_locevent_que, TaskVars, RunVars>>

\* run(): Command::HardRepair
DispatchHardRepair ==
    /\ Receives("HardRepair")
    /\ run_state' = "await_hard"
    /\ com_q' = Tail(com_q)
    /\ last' = Did("HardRepair", "")
    /\ UNCHANGED <<HandlerVars, network_status, offline_locevent_que, retry, TaskVars,
                   RunVars>>

\* run(): Command::NetworkConnect
DispatchNetworkConnect ==
    /\ Receives("NetworkConnect")
    /\ IF network_status = "Connect"
       THEN /\ last' = Did("NetworkConnect", "")
            /\ com_q' = Tail(com_q)
            /\ UNCHANGED <<HandlerVars, network_status, offline_locevent_que,
                           run_state, retry, poll_pc>>
       ELSE \E res \in {soft_repair(Here, offline_locevent_que)},
               mid \in meanwhile(Tail(com_q)) :
                /\ Commit(res.s)
                /\ offline_locevent_que' = <<>>
                /\ last' = [Obs("soft_repair", res.err, res.s) EXCEPT
                                !.events = offline_locevent_que, !.coms = res.coms]
                /\ poll_pc' = IF mid # <<>> /\ net THEN "pull" ELSE poll_pc
                /\ IF res.err # ""
                   THEN /\ com_q' = Tail(com_q) \o mid \o Echoes(res.s)
                        /\ Exit("Err", retry) /\ UNCHANGED network_status
                   ELSE IF res.val
                   THEN /\ com_q' = Tail(com_q) \o mid \o Echoes(res.s)
                        /\ Break(TRUE) /\ UNCHANGED network_status
                   ELSE IF Len(res.coms) > send_room(Tail(com_q) \o mid)
                   THEN /\ com_q' = Tail(com_q) \o mid
                                        \o SubSeq(res.coms, 1, send_room(Tail(com_q) \o mid))
                        /\ run_state' = "send"
                        /\ UNCHANGED <<network_status, retry>>
                   ELSE /\ com_q' = Tail(com_q) \o mid \o res.coms \o Echoes(res.s)
                        /\ network_status' = "Connect"
                        /\ retry' = FALSE
                        /\ UNCHANGED run_state
    /\ UNCHANGED <<poll_state, control_pc, net, env_steps, RunVars>>

\* run(): Command::NetworkDisconnect
DispatchNetworkDisconnect ==
    /\ Receives("NetworkDisconnect")
    /\ IF network_status = "Connect"
       THEN /\ nc2l_cancel_map' = EmptyMap
            /\ l2nc_cancel_set' = {}
            /\ network_status' = "Disconnect"
       ELSE UNCHANGED <<nc2l_cancel_map, l2nc_cancel_set, network_status>>
    /\ com_q' = Tail(com_q)
    /\ last' = Did("NetworkDisconnect", "")
    /\ UNCHANGED <<ent, nc_state, disk, srv, log, offline_locevent_que,
                   run_state, retry, TaskVars, RunVars>>

\* run(): Command::Terminate
DispatchTerminate ==
    /\ Receives("Terminate")
    /\ Break(Head(com_q).r)
    /\ com_q' = Tail(com_q)
    /\ last' = [Did("Terminate", "") EXCEPT !.coms = <<Head(com_q)>>]
    /\ UNCHANGED <<HandlerVars, network_status, offline_locevent_que, TaskVars, RunVars>>

CanSend == Running /\ Len(com_q) < MaxQueue

PollCheck ==
    /\ CanSend /\ poll_pc = "check"
    /\ com_q' = check(com_q, net)
    /\ poll_pc' = IF net THEN "pull" ELSE "check"
    /\ last' = Did("check", "")
    /\ UNCHANGED <<HandlerVars, network_status, offline_locevent_que, run_state, retry,
                   poll_state, control_pc, net, env_steps, RunVars>>

\* nclistening(): get_ncevents and the NCEvents command; an error ends the
\* task, which then sends Terminate(true)
PollPull ==
    /\ CanSend /\ poll_pc = "pull"
    /\ \E r \in {get_ncevents(Here, poll_state)} :
           IF r.err # ""
           THEN /\ com_q' = Append(com_q, Terminate(TRUE))
                /\ poll_pc' = "done"
                /\ last' = [Did("get_ncevents", r.err) EXCEPT
                                !.sends = terminate_send(0, FALSE).sends]
                /\ UNCHANGED poll_state
           ELSE /\ poll_state' = r.latest_activity_id
                /\ com_q' = IF Len(r.events) > 0
                            THEN Append(com_q, NCEvents(r.events, r.by, r.latest_activity_id))
                            ELSE com_q
                /\ poll_pc' = "check"
                /\ last' = Did("get_ncevents", "")
    /\ UNCHANGED <<HandlerVars, network_status, offline_locevent_que, run_state, retry,
                   control_pc, net, env_steps, RunVars>>

\* exc_list_update_watching(): the exclude file has been written
ExcListUpdateWatching ==
    /\ CanSend /\ env_steps < MaxEnv
    /\ env_steps' = env_steps + 1
    /\ com_q' = Append(com_q, [c |-> "UpdateExcFile"])
    /\ last' = Did("exc_list_update_watching", "")
    /\ UNCHANGED <<HandlerVars, network_status, offline_locevent_que, run_state, retry,
                   poll_pc, poll_state, control_pc, net, RunVars>>

\* the control task: one line of the standard input, "RESET" or anything else
Lines == {"RESET", "reset", ""}
control(ln) == IF ln = "RESET" THEN [c |-> "HardRepair"] ELSE Terminate(FALSE)

Control(ln) ==
    /\ CanSend /\ env_steps < MaxEnv /\ control_pc = "read"
    /\ env_steps' = env_steps + 1
    /\ control_pc' = "done"
    /\ com_q' = Append(com_q, control(ln))
    /\ last' = [Did("control", "") EXCEPT !.ln = ln, !.coms = <<control(ln)>>]
    /\ UNCHANGED <<HandlerVars, network_status, offline_locevent_que, run_state, retry,
                   poll_pc, poll_state, net, RunVars>>

TaskEnds_while_open(op, fatal) ==
    /\ Running
    /\ last' = Did(op, "")
    /\ UNCHANGED <<HandlerVars, network_status, offline_locevent_que, com_q, run_state,
                   retry, poll_state, control_pc, net, env_steps, cache, UnitVars>>
\* a producer task after com_rx.close(): it returns Ok at is_closed() or at
\* the disconnected receiver of its dropped watcher, or its send fails, which
\* is a fatal error of its body and is followed by terminate_send!
TaskEnds(op, fatal) ==
    /\ Closed
    /\ last' = [Did(op, IF fatal THEN "SendError" ELSE "") EXCEPT
                    !.sends = IF fatal THEN terminate_send(0, TRUE).sends ELSE 0]
    /\ UNCHANGED <<HandlerVars, network_status, offline_locevent_que, com_q, run_state,
                   retry, poll_state, control_pc, net, env_steps, cache, UnitVars>>

NclisteningEnds(fatal) ==
    /\ poll_pc # "done" /\ TaskEnds("nclistening", fatal)
    /\ poll_pc' = "done"
    /\ UNCHANGED <<watch_pc, meta_pc>>

WatchingEnds(fatal) ==
    /\ watch_pc # "done" /\ TaskEnds("watching", fatal)
    /\ watch_pc' = "done"
    /\ UNCHANGED <<poll_pc, meta_pc>>

ExcListUpdateWatchingEnds(fatal) ==
    /\ meta_pc # "done" /\ TaskEnds("exc_list_update_watching", fatal)
    /\ meta_pc' = "done"
    /\ UNCHANGED <<poll_pc, watch_pc>>

\* run() after the loop: the three handles are awaited, the control task is
\* aborted, the cache is saved and Ok(retry) is returned
RunReturns ==
    /\ run_state = "await"
    /\ poll_pc = "done" /\ watch_pc = "done" /\ meta_pc = "done"
    /\ control_pc' = "done"
    /\ cache' = save_cache(ent, nc_state)
    /\ run_state' = "Ok"
    /\ last' = Did("return", "")
    /\ UNCHANGED <<HandlerVars, network_status, offline_locevent_que, com_q, retry,
                   poll_pc, poll_state, watch_pc, meta_pc, net, env_steps, UnitVars>>

\* run(), Command::HardRepair after the awaits: the control task is aborted,
\* all_delete removes everything under the local root and Ok(true) is returned
HardRepairReturns ==
    /\ run_state = "await_hard"
    /\ poll_pc = "done" /\ watch_pc = "done" /\ meta_pc = "done"
    /\ control_pc' = "done"
    /\ disk' = all_delete(disk)
    /\ cache' = NoCache
    /\ run_state' = "Ok"
    /\ retry' = TRUE
    /\ last' = Did("all_delete", "")
    /\ UNCHANGED <<ent, nc2l_cancel_map, l2nc_cancel_set, nc_state, srv, log,
                   network_status, offline_locevent_que, com_q,
                   poll_pc, poll_state, watch_pc, meta_pc, net, env_steps, UnitVars>>

\* main(): `while run().await? {}` enters run() again after Ok(true); run()
\* loads the cache file when there is one, and otherwise asks the server for
\* everything: init() and save_cache, or NetworkOfflineError when offline
RunStarts(r) ==
    /\ ent' = Collect(r.s.h)
    /\ nc_state' = r.s.nc_state
    /\ poll_state' = r.s.nc_state
    /\ disk' = r.s.disk
    /\ IF r.err # ""
       THEN /\ run_state' = "Err"
            /\ UNCHANGED <<cache, network_status, nc2l_cancel_map, l2nc_cancel_set,
                           offline_locevent_que, com_q, retry, poll_pc, control_pc,
                           watch_pc, meta_pc>>
       ELSE /\ run_state' = "loop"
            /\ cache' = save_cache(r.s.h, r.s.nc_state)
            /\ network_status' = IF net THEN "Connect" ELSE "Disconnect"
            /\ nc2l_cancel_map' = EmptyMap
            /\ l2nc_cancel_set' = {}
            /\ offline_locevent_que' = <<>>
            /\ com_q' = <<>>
            /\ retry' = FALSE
            /\ poll_pc' = "check"
            /\ control_pc' = "read"
            /\ watch_pc' = "run"
            /\ meta_pc' = "run"
    /\ last' = Did(IF cache.exists THEN "load_cache" ELSE "init", r.err)
    /\ UNCHANGED <<srv, log, net, env_steps, UnitVars>>

Main ==
    /\ run_state = "Ok" /\ retry
    /\ IF cache.exists
       THEN RunStarts(Done([Here EXCEPT
                !.h = json_entry2entry(<<>>, cache.root_entry).h,
                !.nc_state = cache.latest_activity_id]))
       ELSE IF ~net THEN RunStarts(Fail(Here, "NetworkOfflineError"))
       ELSE RunStarts(init(Here))

EnvStep(op) ==
    /\ Running /\ env_steps < MaxEnv
    /\ env_steps' = env_steps + 1
    /\ last' = Did(op, "")
    /\ UNCHANGED <<ent, nc2l_cancel_map, l2nc_cancel_set, nc_state, network_status,
                   offline_locevent_que, run_state, retry, poll_pc, poll_state, control_pc,
                   RunVars>>

\* the network comes and goes
NetChange ==
    /\ EnvStep("net")
    /\ net' = ~net
    /\ UNCHANGED <<srv, log, disk, com_q>>

\* another client changes the files of the server
Remote(r) ==
    /\ r.ok
    /\ EnvStep("remote")
    /\ srv' = r.srv
    /\ log' = r.log
    /\ UNCHANGED <<net, disk, com_q>>

\* the user changes the files under the local root and watching() sends the
\* LocEvent of the change
Local(dk, ev) ==
    /\ Len(com_q) < MaxQueue
    /\ EnvStep("local")
    /\ disk' = dk
    /\ com_q' = com_q \o watching(dk, ev)
    /\ UNCHANGED <<net, srv, log>>

LocalWrite(p) ==
    /\ DiskKind(disk, PathParent(p)) = "dir" /\ disk[p] # "dir"
    /\ Local([disk EXCEPT ![p] = "file"],
             [k |-> IF disk[p] = "none" THEN "Create" ELSE "Write", p |-> p, q |-> NoPath])

LocalMkdir(p) ==
    /\ DiskKind(disk, PathParent(p)) = "dir" /\ disk[p] = "none"
    /\ Local([disk EXCEPT ![p] = "dir"], [k |-> "Create", p |-> p, q |-> NoPath])

LocalRemove(p) ==
    /\ disk[p] # "none"
    /\ Local(FsRemove(disk, p, "none"), [k |-> "Remove", p |-> p, q |-> NoPath])

LocalRename(p, q) ==
    /\ p # q /\ ~IsUnder(q, p) /\ ~IsUnder(p, q)
    /\ disk[p] # "none" /\ DiskKind(disk, PathParent(q)) = "dir"
    /\ Local(FsMove(disk, p, q, "none"), [k |-> "Rename", p |-> p, q |-> q])

Next ==
    \/ DispatchLocEvent
    \/ DispatchNCEvents
    \/ DispatchUpdateFile
    \/ DispatchHardRepair
    \/ DispatchNetworkConnect
    \/ DispatchNetworkDisconnect
    \/ DispatchTerminate
    \/ PollCheck
    \/ PollPull
    \/ ExcListUpdateWatching
    \/ \E fatal \in BOOLEAN : NclisteningEnds(fatal)
    \/ \E fatal \in BOOLEAN : WatchingEnds(fatal)
    \/ \E fatal \in BOOLEAN : ExcListUpdateWatchingEnds(fatal)
    \/ RunReturns
    \/ HardRepairReturns
    \/ Main
    \/ \E ln \in Lines : Control(ln)
    \/ NetChange
    \/ \E p \in {PathA, PathDA} : Remote(WebDavPut(srv, log, p, "user"))
    \/ \E p \in {PathB, PathD} : Remote(WebDavMkcol(srv, log, p, "user"))
    \/ \E p \in {PathDA, PathD} : Remote(WebDavDelete(srv, log, p, "user"))
    \/ Remote(WebDavMove(srv, log, PathDA, PathA, "user"))
    \/ Remote(WebDavMove(srv, log, PathD, PathB, "user"))
    \/ \E p \in {PathA, PathDA, PathX} : LocalWrite(p)
    \/ LocalMkdir(PathB)
    \/ LocalRemove(PathDA)
    \/ LocalRename(PathDA, PathA)
    \/ LocalRename(PathDA, PathB)
    \/ LocalRename(PathD, PathB)
    \/ LocalRename(PathX, PathA)
    \/ LocalRename(PathDA, PathX)
    \/ LocalRename(PathX, PathY)

Spec == Init /\ [][Next]_vars

\* the scheduling of the exit path: the runtime keeps polling a producer task
\* that can make progress and run() itself, so each of them takes its step
\* when it stays enabled
Fairness ==
    /\ WF_vars(\E fatal \in BOOLEAN : NclisteningEnds(fatal))
    /\ WF_vars(\E fatal \in BOOLEAN : WatchingEnds(fatal))
    /\ WF_vars(\E fatal \in BOOLEAN : ExcListUpdateWatchingEnds(fatal))
    /\ WF_vars(RunReturns)
    /\ WF_vars(HardRepairReturns)
SpecLive == Spec /\ Fairness

----------------------------------------------------------------------------
(* The tree operations on their own                                        *)

\* "/x", "/x/", "/x/y", "/x/y/" ... up to MaxDepth segments
RECURSIVE SegSeqs(_)
SegSeqs(n) ==
    IF n = 0 THEN {<<>>}
    ELSE SegSeqs(n - 1) \cup {Append(s, a) : s \in {t \in SegSeqs(n - 1) : Len(t) = n - 1},
                                             a \in Atoms}

TreePaths ==
    LET segs == SegSeqs(MaxDepth) \ {<<>>}
    IN  {<<"">> \o s : s \in segs} \cup {<<"">> \o s \o <<"">> : s \in segs}

\* a tree of the root alone, with no task running
InitTree ==
    /\ ent = [i \in {RootId} |-> RootEntry]
    /\ last = NoOp
    /\ nc_state = 0
    /\ poll_state = 0
    /\ net = FALSE
    /\ network_status = "Disconnect"
    /\ nc2l_cancel_map = EmptyMap
    /\ l2nc_cancel_set = {}
    /\ offline_locevent_que = <<>>
    /\ com_q = <<>>
    /\ run_state = "tree"
    /\ retry = FALSE
    /\ poll_pc = "done"
    /\ control_pc = "done"
    /\ watch_pc = "done"
    /\ meta_pc = "done"
    /\ cache = NoCache
    /\ rx = <<>>
    /\ exc_checker = DefaultChecker
    /\ activity_api = <<>>
    /\ srv = [x \in AllPaths |-> NoFile]
    /\ log = <<>>
    /\ disk = [x \in AllPaths |-> "none"]
    /\ env_steps = 0

\* Entry::append in Create mode of an orphan entry made by Entry::new and
\* named after the last segment of the path, as every caller does
TreeAppend(path, type_, overwrite) ==
    LET entry == NewId(ent)
        r == append(Alloc(ent, EntryNew(path2name(drop_slash(path)), type_, NoEtag)),
                    RootId, path, entry, "Create", overwrite)
    IN  /\ Cardinality(Attached(r.h)) <= MaxEntries
        /\ ent' = Collect(r.h)
        /\ last' = [Did("append", r.err) EXCEPT !.new = Len(r.new)]
        /\ UNCHANGED <<engine_vars, env_vars>>

\* Entry::pop, the entry is dropped by the caller
TreePop(path) ==
    LET r == pop(ent, RootId, path)
    IN  /\ r.err # "panic"
        /\ ent' = Collect(r.h)
        /\ last' = Did("pop", r.err)
        /\ UNCHANGED <<engine_vars, env_vars>>

\* Entry::pop followed by Entry::append in Move mode of the popped entry
TreeMove(from_path, to_path, overwrite) ==
    LET p == pop(ent, RootId, from_path)
        r == append(p.h, RootId, to_path, p.val, "Move", overwrite)
    IN  /\ p.err = "" /\ p.val # NoEntry
        /\ Cardinality(Attached(r.h)) <= MaxEntries
        /\ ent' = Collect(r.h)
        /\ last' = Did("move", r.err)
        /\ UNCHANGED <<engine_vars, env_vars>>

\* Entry::append_child of an orphan entry made by Entry::new to a directory
TreeAppendChild(parent, name, type_) ==
    LET child == NewId(ent)
        h1 == append_child(Alloc(ent, EntryNew(<<name>>, type_, NoEtag)), parent, child)
    IN  /\ parent \in DOMAIN ent /\ is_dir(ent[parent])
        /\ Cardinality(Attached(h1)) <= MaxEntries
        /\ ent' = Collect(h1)
        /\ last' = Did("append_child", "")
        /\ UNCHANGED <<engine_vars, env_vars>>

NextTree ==
    \/ \E path \in TreePaths, type_ \in {"File", "Directory"}, overwrite \in BOOLEAN :
            TreeAppend(path, type_, overwrite)
    \/ \E path \in TreePaths : TreePop(path)
    \/ \E from_path \in {p \in TreePaths : pop(ent, RootId, p).val # NoEntry} :
            \E to_path \in TreePaths, overwrite \in BOOLEAN :
                TreeMove(from_path, to_path, overwrite)
    \/ \E parent \in 0..MaxEntries, name \in Atoms, type_ \in {"File", "Directory"} :
            TreeAppendChild(parent, name, type_)

SpecTree == InitTree /\ [][NextTree]_vars

\* ExcludeChecker (src/meta.rs). A regex is written as its source text, and
\* is_match is given by the components it matches among those in use
InvalidRegex == "("
Regex_new(src) == [ok |-> src # InvalidRegex, val |-> src]
is_match(r, s) ==
    s \in (CASE r = "^\\." -> {".", "..", ".x", ".keep"}
             [] r = "^~" -> {"~x"}
             [] r = "^b$" -> {"b"}
             [] r = "x$" -> {".x", "~x"}
             [] r = "^\\.keep$" -> {".keep"}
             [] OTHER -> {})

\* Path::components of a path written as its split at "/": the root, then the
\* segments that are neither empty nor ".", a "." at the head of a relative
\* path staying
Normal(segs) == SelectSeq(segs, LAMBDA c : c # "" /\ c # ".")
components(p) ==
    IF Len(p) > 1 /\ p[1] = "" THEN <<"/">> \o Normal(Tail(p))
    ELSE IF p[1] = "." THEN <<".">> \o Normal(Tail(p))
    ELSE Normal(p)

\* ExcludeChecker::new: the lists of the exclude file without the texts that
\* are no regex, the black list with "^\." and "^~" added
ExcludeChecker_new(raw_list) ==
    [blacks |-> {Regex_new(x).val : x \in {y \in raw_list.blacks : Regex_new(y).ok}}
                    \cup {"^\\.", "^~"},
     whites |-> {Regex_new(x).val : x \in {y \in raw_list.whites : Regex_new(y).ok}}]

\* ExcludeChecker::judge: component by component, a white match goes on to the
\* next component and a black match rejects the path
RECURSIVE compcheck_white_accepts(_, _)
compcheck_white_accepts(self, comps) ==
    IF comps = <<>> THEN TRUE
    ELSE IF \E r \in self.whites : is_match(r, Head(comps)) THEN TRUE
    ELSE IF \E r \in self.blacks : is_match(r, Head(comps)) THEN FALSE
    ELSE compcheck_white_accepts(self, Tail(comps))
RECURSIVE compcheck(_, _)
compcheck(self, comps) ==
    IF comps = <<>> THEN TRUE
    ELSE IF \E r \in self.whites : is_match(r, Head(comps))
    THEN compcheck(self, Tail(comps))
    ELSE IF \E r \in self.blacks : is_match(r, Head(comps)) THEN FALSE
    ELSE compcheck(self, Tail(comps))

ExcludeChecker_judge(self, p) == compcheck(self, components(p))

\* The exclude checker alone: the exclude file is read and paths are judged
MaxComp == 3
Segments == {"", "a", "b", ".", ".x", "~x", ".keep"}
JudgedPaths == UNION {[1..n -> Segments] : n \in 1..MaxComp}
RawLists ==
    [blacks : SUBSET {"^b$", InvalidRegex}, whites : SUBSET {"x$", "^\\.keep$", InvalidRegex}]

InitJudge ==
    /\ ent = [i \in {RootId} |-> RootEntry]
    /\ last = NoOp
    /\ nc_state = 0
    /\ poll_state = 0
    /\ net = FALSE
    /\ network_status = "Disconnect"
    /\ nc2l_cancel_map = EmptyMap
    /\ l2nc_cancel_set = {}
    /\ offline_locevent_que = <<>>
    /\ com_q = <<>>
    /\ run_state = "judge"
    /\ retry = FALSE
    /\ poll_pc = "done"
    /\ control_pc = "done"
    /\ watch_pc = "done"
    /\ meta_pc = "done"
    /\ cache = NoCache
    /\ rx = <<>>
    /\ exc_checker = DefaultChecker
    /\ activity_api = <<>>
    /\ srv = [x \in AllPaths |-> NoFile]
    /\ log = <<>>
    /\ disk = [x \in AllPaths |-> "none"]
    /\ env_steps = 0

ExcludeCheckerNew(raw_list) ==
    /\ run_state = "judge"
    /\ exc_checker' = ExcludeChecker_new(raw_list)
    /\ last' = [Did("ExcludeChecker::new", "") EXCEPT !.arg = raw_list]
    /\ UNCHANGED <<HandlerVars, network_status, offline_locevent_que, com_q, run_state,
                   retry, TaskVars, watch_pc, meta_pc, cache, rx, activity_api>>

Judge(p) ==
    /\ run_state = "judge"
    /\ last' = [Did("judge", "") EXCEPT !.arg = p, !.ret = ExcludeChecker_judge(exc_checker, p)]
    /\ UNCHANGED <<HandlerVars, network_status, offline_locevent_que, com_q, run_state,
                   retry, TaskVars, RunVars>>

NextJudge ==
    \/ \E raw_list \in RawLists : ExcludeCheckerNew(raw_list)
    \/ \E p \in JudgedPaths : Judge(p)
SpecJudge == InitJudge /\ [][NextJudge]_vars

\* get_ncevents (src/nc_listen.rs) request by request. An answer of the
\* activity API is a page (a success status, the header X-Activity-Last-Given
\* and the events of its body), a status without a body, or no answer at all;
\* when api is used up the server has nothing new and answers 304. The ids
\* are texts, "" being the empty one.
ApiPage(last_given, events) == [status |-> 200, last_given |-> last_given, events |-> events]
ApiStatus(status) == [status |-> status, last_given |-> "", events |-> <<>>]
NoAnswer == ApiStatus(0)
is_success(status) == status \in 200..299

\* the loop of get_ncevents: val.err is the failure status kept for the end
RECURSIVE get_ncevents_pages_strict(_, _, _)
get_ncevents_pages_strict(api, latest_activity_id, responses) ==
    LET res == IF api = <<>> THEN ApiStatus(304) ELSE Head(api)
        rest == IF api = <<>> THEN <<>> ELSE Tail(api)
    IN  IF res = NoAnswer
        THEN [fatal |-> "RequestError", err |-> "", latest_activity_id |-> latest_activity_id,
              responses |-> responses, api |-> rest]
        ELSE IF ~is_success(res.status)
        THEN [fatal |-> IF res.status # 304 THEN "BadStatusError" ELSE "", err |-> "",
              latest_activity_id |-> latest_activity_id,
              responses |-> responses, api |-> rest]
        ELSE get_ncevents_pages_strict(rest, res.last_given, responses \o res.events)

RECURSIVE get_ncevents_pages(_, _, _)
get_ncevents_pages(api, latest_activity_id, responses) ==
    LET res == IF api = <<>> THEN ApiStatus(304) ELSE Head(api)
        rest == IF api = <<>> THEN <<>> ELSE Tail(api)
    IN  IF res = NoAnswer
        THEN [fatal |-> "RequestError", err |-> "", latest_activity_id |-> latest_activity_id,
              responses |-> responses, api |-> rest]
        ELSE IF ~is_success(res.status)
        THEN [fatal |-> "", err |-> IF res.status # 304 THEN "BadStatusError" ELSE "",
              latest_activity_id |-> latest_activity_id,
              responses |-> responses, api |-> rest]
        ELSE get_ncevents_pages(rest, res.last_given, responses \o res.events)

\* get_ncevents: err, the events returned, the cursor nc_state is left with and
\* the answers not yet given
get_ncevents_paged(api, nc_state_id) ==
    Let(get_ncevents_pages(api, nc_state_id, <<>>), LAMBDA l :
    IF l.fatal # ""
    THEN [err |-> l.fatal, events |-> <<>>, latest_activity_id |-> nc_state_id, api |-> l.api]
    ELSE IF l.err # "" /\ l.latest_activity_id = ""
    THEN [err |-> l.err, events |-> <<>>, latest_activity_id |-> nc_state_id, api |-> l.api]
    ELSE [err |-> "", events |-> l.responses, latest_activity_id |-> l.latest_activity_id,
          api |-> l.api])

\* get_ncevents alone: the answers of the server are given, and each step is
\* one call
MaxPages == 3
Answers ==
    {ApiPage("5", <<"e1">>), ApiPage("7", <<"e2", "e3">>), ApiPage("9", <<>>),
     ApiStatus(304), ApiStatus(500), NoAnswer}
InitPages ==
    /\ ent = [i \in {RootId} |-> RootEntry]
    /\ last = NoOp
    /\ nc_state \in {"", "3"}
    /\ poll_state = 0
    /\ net = TRUE
    /\ network_status = "Connect"
    /\ nc2l_cancel_map = EmptyMap
    /\ l2nc_cancel_set = {}
    /\ offline_locevent_que = <<>>
    /\ com_q = <<>>
    /\ run_state = "pages"
    /\ retry = FALSE
    /\ poll_pc = "pull"
    /\ control_pc = "done"
    /\ watch_pc = "done"
    /\ meta_pc = "done"
    /\ cache = NoCache
    /\ rx = <<>>
    /\ exc_checker = DefaultChecker
    /\ activity_api \in UNION {[1..n -> Answers] : n \in 0..MaxPages}
    /\ srv = [x \in AllPaths |-> NoFile]
    /\ log = <<>>
    /\ disk = [x \in AllPaths |-> "none"]
    /\ env_steps = 0

GetNcevents ==
    /\ run_state = "pages" /\ poll_pc = "pull"
    /\ LET r == get_ncevents_paged(activity_api, nc_state)
       IN  /\ nc_state' = r.latest_activity_id
           /\ activity_api' = r.api
           /\ poll_pc' = IF r.api = <<>> THEN "done" ELSE "pull"
           /\ last' = [Did("get_ncevents", r.err) EXCEPT
                           !.arg = [api |-> activity_api, nc_state |-> nc_state],
                           !.ret = r.events]
    /\ UNCHANGED <<ent, nc2l_cancel_map, l2nc_cancel_set, disk, srv, log, network_status,
                   offline_locevent_que, com_q, run_state, retry, poll_state, control_pc,
                   net, env_steps, watch_pc, meta_pc, cache, rx, exc_checker>>

NextPages == GetNcevents
SpecPages == InitPages /\ [][NextPages]_vars

\* The functions on path texts alone (src/lib.rs): each step applies one of
\* them to a text of up to MaxSegs segments
MaxSegs == 4
Texts == UNION {[1..n -> {"", "a", "b"}] : n \in 1..MaxSegs}

InitStr ==
    /\ ent = [i \in {RootId} |-> RootEntry]
    /\ last = NoOp
    /\ nc_state = 0
    /\ poll_state = 0
    /\ net = FALSE
    /\ network_status = "Disconnect"
    /\ nc2l_cancel_map = EmptyMap
    /\ l2nc_cancel_set = {}
    /\ offline_locevent_que = <<>>
    /\ com_q = <<>>
    /\ run_state = "str"
    /\ retry = FALSE
    /\ poll_pc = "done"
    /\ control_pc = "done"
    /\ watch_pc = "done"
    /\ meta_pc = "done"
    /\ cache = NoCache
    /\ rx = <<>>
    /\ exc_checker = DefaultChecker
    /\ activity_api = <<>>
    /\ srv = [x \in AllPaths |-> NoFile]
    /\ log = <<>>
    /\ disk = [x \in AllPaths |-> "none"]
    /\ env_steps = 0

Applied(op, arg, ret) ==
    /\ run_state = "str"
    /\ last' = [Did(op, "") EXCEPT !.arg = arg, !.ret = ret]
    /\ UNCHANGED <<HandlerVars, network_status, offline_locevent_que, com_q, run_state,
                   retry, TaskVars, RunVars>>

AddHeadSlash(s) == Applied("add_head_slash", s, add_head_slash(s))
AddLastSlash(s) == Applied("add_last_slash", s, add_last_slash(s))
FixRoot(s) == Applied("fix_root", s, fix_root(s))

PreparePathVec(s) == Applied("prepare_path_vec", s, prepare_path_vec(s))

NextStr ==
    \/ \E s \in Texts : AddHeadSlash(s)
    \/ \E s \in Texts : AddLastSlash(s)
    \/ \E s \in Texts : FixRoot(s)
    \/ \E s \in Texts : PreparePathVec(s)
SpecStr == InitStr /\ [][NextStr]_vars

\* The watcher task alone: the events of the watcher are given, and each step
\* is one turn of the loop of watching()
MaxRaw == 3
RawEv(k, p, q) == [k |-> k, p |-> p, q |-> q]
RawEvents ==
    {RawEv("Create", PathA, NoPath), RawEv("Create", PathB, NoPath),
     RawEv("Write", PathA, NoPath), RawEv("Write", PathB, NoPath),
     RawEv("Remove", PathA, NoPath), RawEv("Remove", PathB, NoPath),
     RawEv("Rename", PathA, PathB), RawEv("Chmod", PathA, NoPath)}
RawSeqs ==
    UNION {[1..n -> [ev : RawEvents, late : BOOLEAN]] : n \in 1..MaxRaw}

InitWatch ==
    /\ ent = [i \in {RootId} |-> RootEntry]
    /\ last = NoOp
    /\ nc_state = 0
    /\ poll_state = 0
    /\ net = FALSE
    /\ network_status = "Disconnect"
    /\ nc2l_cancel_map = EmptyMap
    /\ l2nc_cancel_set = {}
    /\ offline_locevent_que = <<>>
    /\ com_q = <<>>
    /\ run_state = "watch"
    /\ retry = FALSE
    /\ poll_pc = "done"
    /\ control_pc = "done"
    /\ watch_pc = "run"
    /\ meta_pc = "done"
    /\ cache = NoCache
    /\ rx \in RawSeqs
    /\ exc_checker = DefaultChecker
    /\ activity_api = <<>>
    /\ srv = [x \in AllPaths |-> NoFile]
    /\ log = <<>>
    /\ disk = [x \in AllPaths |-> IF x = PathA THEN "file"
                                   ELSE IF x = PathB THEN "dir" ELSE "none"]
    /\ env_steps = 0

Watching ==
    /\ run_state = "watch" /\ watch_pc = "run" /\ rx # <<>>
    /\ LET r == watching_loop(disk, rx)
       IN  /\ com_q' = com_q \o r.items
           /\ rx' = r.rx
           /\ last' = [Did("watching", "") EXCEPT !.coms = r.items]
    /\ UNCHANGED <<ent, HandlerVars, network_status, offline_locevent_que, run_state,
                   retry, TaskVars, watch_pc, meta_pc, cache, exc_checker, activity_api>>

NextWatch == Watching
SpecWatch == InitWatch /\ [][NextWatch]_vars

\* save_cache of root2json_entry(root) followed by json_entry2entry of load_cache,
\* as at the end of one run() and the start of the next
TreeSaveLoad ==
    LET json == root2json_entry(ent, RootId)
        r == json_entry2entry(<<>>, json.val)
    IN  /\ json.err = ""
        /\ ent' = Collect(r.h)
        /\ last' = Did("save_load", "")
        /\ UNCHANGED <<engine_vars, env_vars>>

\* trees are built by append and append_child and go through the cache file
NextJson ==
    \/ \E path \in TreePaths, type_ \in {"File", "Directory"} :
            TreeAppend(path, type_, FALSE)
    \/ \E parent \in 0..MaxEntries, name \in Atoms, type_ \in {"File", "Directory"} :
            TreeAppendChild(parent, name, type_)
    \/ TreeSaveLoad

SpecJson == InitTree /\ [][NextJson]_vars

----------------------------------------------------------------------------
(* Properties of the engine                                                *)

\* C1: when the dispatcher handles NCEvents(events, new_state) while connected,
\* a batch whose new_state is equal to or older than nc_state is dropped with
\* the tree, the cursor, both cancellation books and the local files
\* unchanged; a newer one makes nc_state the new_state, whether or not the
\* events can then be applied; and nc_state never decreases in any step.
NCEventsBatchOrdering ==
    [][/\ last'.op \in {"NCEvents", "NCEvents:older"} =>
            /\ network_status = "Connect"
            /\ Head(com_q).state <= nc_state =>
                    /\ UNCHANGED <<ent, nc_state, nc2l_cancel_map, l2nc_cancel_set, disk>>
                    /\ last'.wr = <<>>
            /\ Head(com_q).state > nc_state => nc_state' = Head(com_q).state
       /\ nc_state' >= nc_state]_vars

\* a batch that soft repair or an earlier batch has already covered is dropped
WitnessOlderBatchDropped ==
    /\ last.op = "NCEvents:older"
    /\ last.events # <<>>
    /\ nc_state > 0

\* C2: in a batch the dispatcher applies, every event that echoes a request of
\* deal_local_event is dropped, also when the same mutation of the same path
\* has been made more than once before the poll.
RepeatedEchoesAllDropped ==
    [][last'.op = "NCEvents" =>
          \A i, j \in 1..Len(last'.events) :
              /\ i < j
              /\ last'.events[i] = last'.events[j]
              /\ last'.by[i] = "engine" /\ last'.by[j] = "engine"
              /\ last'.dropped[i]
              => last'.dropped[j]]_vars

Count(m, k) == IF k \in DOMAIN m THEN m[k] ELSE 0
Writes(wr, ops, p) == Cardinality({i \in 1..Len(wr) : wr[i].op \in ops /\ wr[i].p = p})

OfflineLocEventsAreBuffered ==
    [][(last'.op \in {"LocEvent", "LocEvent:offline"} /\ network_status # "Connect") =>
          /\ offline_locevent_que' = offline_locevent_que \o <<Head(com_q).ev>>
          /\ UNCHANGED <<srv, log, ent, nc2l_cancel_map, l2nc_cancel_set>>]_vars

\* two local events have been buffered, one after the other
WitnessTwoBuffered ==
    /\ last.op = "LocEvent:offline"
    /\ Len(offline_locevent_que) = 2
    /\ offline_locevent_que[1] # offline_locevent_que[2]

\* C5: the dispatcher never dequeues an NCEvents command while network_status
\* is not Connect: no NCEvents command is at the head of the queue of a
\* running dispatcher then, and the offline branch is never taken.
NCEventsOnlyWhileConnected ==
    /\ last.op # "NCEvents:offline"
    /\ Receives("NCEvents") => network_status = "Connect"

\* the dispatcher is about to dequeue an NCEvents command after it has been
\* offline and has repaired
WitnessNCEventsAfterReconnect ==
    /\ Receives("NCEvents")
    /\ last.op = "soft_repair"

\* C6 as stated: when the pull of soft repair fails, both books are cleared,
\* normal repair runs and run returns retry = true.
SoftRepairPullFailureEscalates ==
    [][(last'.op = "soft_repair" /\ get_ncevents(Here, nc_state).err # "") =>
          /\ nc2l_cancel_map' = EmptyMap
          /\ l2nc_cancel_set' = {}
          /\ run_state' = "Ok"
          /\ retry' = TRUE]_vars

Resolves(h, p) == get(h, RootId, path2str(p)).val # NoEntry
ReplayOf(h, paths) ==
    [i \in 1..Len(paths) |->
        LocEvent(IF Resolves(h, paths[i]) THEN Modify(paths[i]) ELSE Create(paths[i]))]
PathOf(ev) == IF ev.k = "Move" THEN ev.q ELSE ev.p
PathsOf(evs) == [i \in 1..Len(evs) |-> PathOf(evs[i])]

\* C7 as stated: a successful soft repair sends one LocEvent for every
\* buffered local event, Modify(p) if p resolves in the tree, else Create(p).
EveryBufferedEventReplayed ==
    [][(last'.op = "soft_repair" /\ run_state' = "loop") =>
          last'.coms = ReplayOf(ent', PathsOf(offline_locevent_que))]_vars

\* C7: a successful soft repair sends, in the order of the buffer, one LocEvent
\* for every buffered Create(p), Modify(p) and Move(_, p) whose p is on the
\* disk by then, Modify(p) if p resolves in the tree, else Create(p); a
\* buffered Delete and an event whose path is gone are not replayed.
RemainingModifiedPathsReplayed ==
    [][(last'.op = "soft_repair" /\ run_state' = "loop") =>
          last'.coms =
              ReplayOf(ent', SelectSeq(PathsOf(SelectSeq(offline_locevent_que,
                                                         LAMBDA ev : ev.k # "Delete")),
                                       LAMBDA p : DiskKind(disk', p) # "none"))]_vars

\* a soft repair has replayed what was buffered
WitnessBufferedEventReplayed ==
    /\ last.op = "soft_repair"
    /\ run_state = "loop"
    /\ last.coms # <<>>
    /\ \E i \in 1..Len(last.events) : to_modified_path(last.events[i]) # NoPath

----------------------------------------------------------------------------
(* Properties of the tree                                                  *)

\* C8: for every directory D and every (key -> child) of D's child map,
\* the child's parent back-reference is D and the key is the child's raw,
\* separator-free name.
ChildMapKeyedByRawName ==
    \A d \in DOMAIN ent : \A k \in DOMAIN ent[d].children :
        LET c == ent[d].children[k]
        IN  ent[c].parent = d /\ k = ent[c].name

GetOfGetPathIsIdentity ==
    \A e \in DOMAIN ent \ {RootId} :
        LET p == get_path(ent, e)
        IN  /\ p.err = ""
            /\ get(ent, RootId, p.val) = Ok(e)

\* an entry sits two levels below the root
WitnessNestedEntry ==
    \E e \in DOMAIN ent : ent[e].parent \notin {NoEntry, RootId}

\* the path of an attached entry without the trailing separator of a directory
RawPath(h, e) == drop_slash(get_path(h, e).val)
\* the paths the attached entries of a tree answer to
PathsIn(h) == {get_path(h, e).val : e \in Attached(h) \ {RootId}}
\* p resolves, as a file or, with the separator added, as a directory
ResolvesAs(h, p) == p \in PathsIn(h) \/ (p \o <<"">>) \in PathsIn(h)
\* the intermediate directories of a path, and those a tree has not got
DirPrefixes(path) ==
    {SubSeq(path, 1, n) \o <<"">> : n \in 2..(Len(drop_slash(path)) - 1)}
MissingDirs(h, path) == DirPrefixes(path) \ PathsIn(h)
\* what a tree holds, handle by handle forgotten
Shape(h) ==
    {<<get_path(h, e).val, h[e].type_, h[e].etag, h[e].status>> : e \in Attached(h)}
\* the orphan entry TreeAppend makes, and the heap that holds it
Orphan(path, type_) == EntryNew(path2name(drop_slash(path)), type_, NoEtag)
WithOrphan(path, type_) == Alloc(ent, Orphan(path, type_))
EntryTypes == {"File", "Directory"}

\* C11: in every reachable tree each non-root entry is held by exactly one
\* child map under exactly one key, and no child map holds two children of
\* the same raw name.
OneOwnerAndUniqueRawNames ==
    /\ \A e \in DOMAIN ent \ {RootId} :
           Cardinality({dk \in UNION {{<<d, k>> : k \in DOMAIN ent[d].children} :
                                         d \in DOMAIN ent} :
                           ent[dk[1]].children[dk[2]] = e}) = 1
    /\ \A d \in DOMAIN ent : \A k1, k2 \in DOMAIN ent[d].children :
           ent[ent[d].children[k1]].name = ent[ent[d].children[k2]].name => k1 = k2

\* Entry::append in Create mode of the orphan, and Entry::pop followed by
\* Entry::append in Move mode, as TreeAppend and TreeMove apply them to ent
AppendOf(path, type_, overwrite) ==
    append(WithOrphan(path, type_), RootId, path, NewId(ent), "Create", overwrite)
MoveOf(from_path, to_path) ==
    LET p == pop(ent, RootId, from_path)
    IN  append(p.h, RootId, to_path, p.val, "Move", TRUE)

AppendOnExistingFails ==
    \A path \in TreePaths, type_ \in EntryTypes :
        LET r == AppendOf(path, type_, FALSE)
        IN  ResolvesAs(ent, path) =>
                /\ r.err = "AlreadyExist"
                /\ Collect(r.h) = ent
                /\ r.h[NewId(ent)].parent = NoEntry
                /\ NewId(ent) \notin Attached(r.h)

\* an append has been refused in a tree that holds a file and a directory
WitnessAppendRefused ==
    /\ last.op = "append"
    /\ last.err = "AlreadyExist"
    /\ \E e \in DOMAIN ent : is_file(ent[e])
    /\ \E e \in DOMAIN ent \ {RootId} : is_dir(ent[e])

\* C14: after pop and append in Move mode with overwrite, the moved entry is
\* a child of the directory the target names and keeps its name if the tree
\* has a directory at the target; otherwise it bears the last segment of the
\* target, sits at the target, and nothing else is reachable there.
MoveAppendPlacesOrReplaces ==
    \A from_path \in TreePaths, to_path \in TreePaths :
        LET p == pop(ent, RootId, from_path)
            E == p.val
            r == MoveOf(from_path, to_path)
            to == drop_slash(to_path)
            dirs == {d \in Attached(p.h) : is_dir(p.h[d]) /\ RawPath(p.h, d) = to}
        IN  (E # NoEntry /\ r.err = "") =>
                IF dirs # {}
                THEN \E d \in dirs : r.h[E].parent = d /\ r.h[E].name = p.h[E].name
                ELSE /\ r.h[E].name = <<Last(to)>>
                     /\ \A x \in Attached(r.h) : RawPath(r.h, x) = to <=> x = E

\* C15: an append whose path runs through an existing File fails with
\* InvalidPath, makes no placeholder directory and attaches nothing.
AppendThroughFileFails ==
    \A path \in TreePaths, type_ \in EntryTypes, overwrite \in BOOLEAN :
        LET r == AppendOf(path, type_, overwrite)
        IN  (\E e \in DOMAIN ent \ {RootId} :
                 is_file(ent[e]) /\ IsUnder(drop_slash(path), RawPath(ent, e))) =>
                /\ r.err = "InvalidPathError"
                /\ Collect(r.h) = ent

\* C16: the intermediate directories a successful append had to make are
\* attached as Directory entries of status UpToDate, and the list it returns
\* holds a handle to each of them and to no directory that was there before.
PlaceholdersUpToDateAndListed ==
    \A path \in TreePaths, type_ \in EntryTypes, overwrite \in BOOLEAN :
        LET r == AppendOf(path, type_, overwrite)
            made == Attached(r.h) \ (DOMAIN ent \cup {NewId(ent)})
        IN  r.err = "" =>
                /\ \A d \in made : is_dir(r.h[d]) /\ r.h[d].status = "UpToDate"
                /\ {r.new[i][1] : i \in 1..Len(r.new)} \ {NewId(ent)} = made


\* the tree json_entry2entry makes of root2json_entry(h)
Reloaded(h) == Collect(json_entry2entry(<<>>, root2json_entry(h, RootId).val).h)

\* C17: for every legal tree, file entries without an etag included,
\* root2json_entry followed by json_entry2entry yields a tree whose entries all
\* have status UpToDate and which is otherwise equal to the original: the same
\* paths (names and parent/child relation), variants and etags, an absent etag
\* staying absent.
JsonRoundTripKeepsTree ==
    /\ root2json_entry(ent, RootId).err = ""
    /\ Shape(Reloaded(ent)) = {<<x[1], x[2], x[3], "UpToDate">> : x \in Shape(ent)}


\* the entry of the tree h whose path is p, written with or without the
\* separator at its end
EntryAt(h, p) ==
    LET found == {e \in Attached(h) \ {RootId} :
                     get_path(h, e).val \in {p, p \o <<"">>}}
    IN  IF found = {} THEN NoEntry ELSE CHOOSE e \in found : TRUE

\* the entries below e and e itself have in h2 the variant, the etag and the
\* children they have in h1
SameSubtree(h1, h2, e) ==
    /\ Reach(h1, e) \subseteq DOMAIN h2
    /\ \A i \in Reach(h1, e) : /\ h2[i].type_ = h1[i].type_
                                /\ h2[i].etag = h1[i].etag
                                /\ h2[i].children = h1[i].children

\* what the handler of a move left of the entry src that was at from: h is the
\* tree it left and err its error
MovedWithIdentity(h, err, src, from, to) ==
    IF err = ""
    THEN /\ EntryAt(h, from) = NoEntry
         /\ EntryAt(h, to) = src
         /\ SameSubtree(ent, h, src)
    ELSE src \in Attached(h)

\* the local move the dispatcher handles next, and the remote move a batch it
\* handles next begins with
LocMovePending ==
    /\ Receives("LocEvent") /\ network_status = "Connect"
    /\ Head(com_q).ev.k = "Move"
NCMovePending ==
    /\ Receives("NCEvents") /\ network_status = "Connect"
    /\ ~eq_or_newer_than(nc_state, Head(com_q).state)
    /\ cancel_filter(Head(com_q).events, l2nc_cancel_set).events # <<>>
    /\ Head(cancel_filter(Head(com_q).events, l2nc_cancel_set).events).k = "Move"

\* C18: a move, local Move(p, q) or remote Move(from, to), whose source is in
\* the tree preserves identity: afterwards the source path no longer resolves,
\* the destination path resolves to the very same entry that was at the source,
\* and the subtree and the etag of that entry are unchanged; when the move fails
\* the entry is not lost from the tree.  The moves are those the handlers carry
\* out: both paths pass the exclude list and the source of a local move is gone
\* from the disk.
MovePreservesIdentity ==
    /\ LocMovePending =>
          LET ev == Head(com_q).ev
              src == EntryAt(ent, path2str(ev.p))
              r == deal_local_event(Here, ev)
          IN  (src # NoEntry /\ judge(ev.p) /\ judge(ev.q)
                   /\ DiskKind(disk, ev.p) = "none")
                  => MovedWithIdentity(r.s.h, r.err, src, path2str(ev.p), path2str(ev.q))
    /\ NCMovePending =>
          LET ev == Head(cancel_filter(Head(com_q).events, l2nc_cancel_set).events)
              src == EntryAt(ent, drop_slash(ev.p))
              r == update_tree(Here, <<ev>>, <<>>)
          IN  (src # NoEntry /\ judge(ev.p) /\ judge(ev.q))
                  => MovedWithIdentity(r.s.h, r.err, src, drop_slash(ev.p), drop_slash(ev.q))


\* the book m with one taken from the counter of k, the key removed at zero
Decremented(m, k) ==
    IF m[k] > 1 THEN [m EXCEPT ![k] = @ - 1] ELSE [x \in DOMAIN m \ {k} |-> m[x]]

\* the dispatcher handles a LocEvent while connected
LocEventHandled == last'.op = "LocEvent" /\ network_status = "Connect"

\* C19 as stated: for every LocalEvent variant (Create, Delete, Modify, Move)
\* handled while connected, an excluded path has the event dropped with
\* nc2l_cancel_map unchanged, and an accepted path that is a key of
\* nc2l_cancel_map has its counter decremented (the key removed at zero) and the
\* event dropped with no server request and no tree change.
EveryVariantConsultsBook ==
    [][LocEventHandled =>
          LET ev == Head(com_q).ev
              key == path2str(ev.p)
          IN  /\ ~judge(ev.p) => UNCHANGED nc2l_cancel_map
              /\ (judge(ev.p) /\ key \in DOMAIN nc2l_cancel_map) =>
                    /\ nc2l_cancel_map' = Decremented(nc2l_cancel_map, key)
                    /\ UNCHANGED <<srv, log, ent>>]_vars

\* C19: a Create(p) or Modify(p) handled while connected is dropped with
\* nc2l_cancel_map unchanged when p is excluded; when p is accepted and a key of
\* nc2l_cancel_map, its counter is decremented (the key removed at zero) and the
\* event is dropped with no server request and no tree change.  A Delete(p),
\* and a Move(p, q) whose p is accepted, leave nc2l_cancel_map unchanged.
CreateAndModifyConsultBook ==
    [][LocEventHandled =>
          LET ev == Head(com_q).ev
              key == path2str(ev.p)
          IN  /\ (ev.k \in {"Create", "Modify"} /\ ~judge(ev.p)) =>
                    /\ last'.err = ""
                    /\ UNCHANGED <<nc2l_cancel_map, l2nc_cancel_set, srv, log, ent>>
              /\ (ev.k \in {"Create", "Modify"} /\ judge(ev.p)
                      /\ key \in DOMAIN nc2l_cancel_map) =>
                    /\ last'.err = ""
                    /\ nc2l_cancel_map' = Decremented(nc2l_cancel_map, key)
                    /\ UNCHANGED <<l2nc_cancel_set, srv, log, ent>>
              /\ (ev.k = "Delete" \/ (ev.k = "Move" /\ judge(ev.p))) =>
                    UNCHANGED nc2l_cancel_map]_vars

\* a Modify of an accepted file that is on the disk and in the tree has been
\* handled without error and without an upload: the book has cancelled it
WitnessModifyCancelled ==
    /\ last.op = "LocEvent" /\ last.err = "" /\ network_status = "Connect"
    /\ \E p \in AllPaths :
          /\ last.events = <<Modify(p)>>
          /\ judge(p) /\ DiskKind(disk, p) = "file"
          /\ get(ent, RootId, path2str(p)).val # NoEntry
          /\ Modify(path2str(p)) \notin l2nc_cancel_set


\* C20: after a local Create(p) succeeds (the target is on the disk, the parent
\* path is in the tree, p is not in the tree, the PUT or MKCOL succeeds), the
\* tree resolves p to a new entry of the on-disk kind whose status is UpToDate
\* and whose etag is the one the server returned, and l2nc_cancel_set contains
\* Create(p).
LocalCreateRegistersUpToDate ==
    [][(LocEventHandled /\ Head(com_q).ev.k = "Create") =>
          LET p == Head(com_q).ev.p
              p_str == path2str(p)
              isfile == DiskKind(disk, p) = "file"
              e == EntryAt(ent', p_str)
          IN  (/\ judge(p) /\ p_str \notin DOMAIN nc2l_cancel_map
               /\ DiskKind(disk, p) # "none"
               /\ \/ PathParent(p) = RootPath
                  \/ EntryAt(ent, path2str(PathParent(p))) # NoEntry
               /\ EntryAt(ent, p_str) = NoEntry
               /\ Len(log') = Len(log) + 1
               /\ log'[Len(log')] = [ev |-> Create(UrlKey(p_str)), by |-> "engine"])
              => /\ e # NoEntry
                 /\ ent'[e].type_ = (IF isfile THEN "File" ELSE "Directory")
                 /\ ent'[e].status = "UpToDate"
                 /\ isfile => ent'[e].etag = srv'[UrlKey(p_str)].etag
                 /\ Create(p_str) \in l2nc_cancel_set']_vars


\* the step has left what the handler result r holds, and nothing else
StepLeaves(r) ==
    /\ last'.err = r.err
    /\ ent' = Collect(r.s.h)
    /\ nc2l_cancel_map' = r.s.n2l
    /\ l2nc_cancel_set' = r.s.l2n
    /\ srv' = r.s.srv
    /\ log' = r.s.log
    /\ disk' = r.s.disk

\* a component of the path matches the black list "^\." or "^~"
Excluded(path) == \E i \in 1..Len(path) : path[i] \in {".x", "~x"}

\* C21: a local Move(p, q) whose source is gone from the disk has exactly the
\* effect of Create(q) when only p is excluded and exactly the effect of
\* Delete(p) when only q is excluded; when both are excluded it is dropped with
\* no server request and no state change.
MoveWithExcludedSide ==
    [][(LocEventHandled /\ Head(com_q).ev.k = "Move"
            /\ DiskKind(disk, Head(com_q).ev.p) = "none") =>
          LET p == Head(com_q).ev.p
              q == Head(com_q).ev.q
          IN  /\ (Excluded(p) /\ ~Excluded(q)) =>
                    StepLeaves(deal_local_event(Here, Create(q)))
              /\ (~Excluded(p) /\ Excluded(q)) =>
                    StepLeaves(deal_local_event(Here, Delete(p)))
              /\ (Excluded(p) /\ Excluded(q)) =>
                    /\ last'.err = ""
                    /\ UNCHANGED <<HandlerVars, offline_locevent_que>>]_vars

\* a Move from an excluded path to an accepted one has been handled and has
\* uploaded the file as a Create would
WitnessMoveHandledAsCreate ==
    /\ last.op = "LocEvent" /\ last.err = "" /\ network_status = "Connect"
    /\ \E q \in AllPaths :
          /\ last.events = <<Move(PathX, q)>>
          /\ ~Excluded(q)
          /\ Create(path2str(q)) \in l2nc_cancel_set
          /\ get(ent, RootId, path2str(q)).val # NoEntry


\* the events of the batch the dispatcher handles next that the filter of
\* update_and_download lets through
PendingEvents ==
    IF Receives("NCEvents") /\ network_status = "Connect"
           /\ ~eq_or_newer_than(nc_state, Head(com_q).state)
    THEN cancel_filter(Head(com_q).events, l2nc_cancel_set).events
    ELSE <<>>

\* two results of update_tree agree in the error, the tree, the files under
\* the local root and the download queue
SameOutcome(a, b) ==
    /\ a.err = b.err
    /\ Collect(a.s.h) = Collect(b.s.h)
    /\ a.s.disk = b.s.disk
    /\ a.err = "" => a.dts = b.dts

\* the batch begins with a Create of a path the tree holds as kind
CreateOfPresent(kind) ==
    /\ PendingEvents # <<>>
    /\ Head(PendingEvents).k = "Create"
    /\ judge(Head(PendingEvents).p)
    /\ EntryAt(ent, drop_slash(Head(PendingEvents).p)) # NoEntry
    /\ ent[EntryAt(ent, drop_slash(Head(PendingEvents).p))].type_ = kind

\* C22: a remote Create(p) for a path that is already in the tree, as a file
\* or as a directory, is skipped: the batch has the outcome it has without that
\* event, in the tree, the files, the download queue and the events applied
\* after it.
RemoteCreateOfPresentSkipped ==
    (CreateOfPresent("File") \/ CreateOfPresent("Directory")) =>
        SameOutcome(update_tree(Here, PendingEvents, <<>>),
                    update_tree(Here, Tail(PendingEvents), <<>>))


\* C23: when handling one event fails, only that event is abandoned: the
\* events behind it in the same NCEvents batch are applied as they are from the
\* state the failed event has left, and the dispatcher loop does not exit on
\* the failure of a LocEvent or of a batch.
FailedEventAloneAbandoned ==
    /\ PendingEvents # <<>> =>
          LET failed == update_tree(Here, <<Head(PendingEvents)>>, <<>>)
              whole == update_tree(Here, PendingEvents, <<>>)
              behind == update_tree(failed.s, Tail(PendingEvents), <<>>)
          IN  failed.err # "" =>
                  /\ Collect(whole.s.h) = Collect(behind.s.h)
                  /\ whole.s.disk = behind.s.disk
    /\ (last.op \in {"LocEvent", "NCEvents"} /\ last.err # "") => Running


\* C24: the dispatcher loop ends when Terminate is dequeued; from then on the
\* tree, latest_activity_id and the flag are left alone, and run returns only
\* with both watchers dropped, the three producer tasks ended and the cache
\* file holding the final tree and the final latest_activity_id; the returned
\* flag is the r of the Terminate(r) that ended the loop.
TerminateEndsRunWithCache ==
    [][/\ (Running /\ last'.op = "Terminate") =>
              /\ Receives("Terminate")
              /\ run_state' = "await"
              /\ retry' = Head(com_q).r
       /\ run_state = "await" =>
              /\ retry' = retry /\ ent' = ent /\ nc_state' = nc_state
              /\ run_state' \in {"await", "Ok"}
       /\ (run_state = "await" /\ run_state' = "Ok") =>
              /\ poll_pc = "done" /\ watch_pc = "done" /\ meta_pc = "done"
              /\ root2json_entry(ent, RootId).err = ""
              /\ cache'.exists
              /\ cache'.root_entry = root2json_entry(ent, RootId).val
              /\ cache'.latest_activity_id = nc_state']_vars

\* run has returned false after a Terminate(false), with a cache that holds a
\* latest_activity_id newer than the one the run started with
WitnessReturnedAfterTerminate ==
    /\ run_state = "Ok" /\ last.op = "return" /\ ~retry
    /\ cache.exists /\ cache.latest_activity_id > 0
    /\ cache.latest_activity_id = nc_state

TerminateSentAtMostThrice ==
    last.sends > 0 => last.sends = (IF Closed THEN 3 ELSE 1)


\* the tree and the local root hold exactly what the server holds at the
\* paths the exclude list accepts, and the cache file holds that tree
Bootstrapped(h, dk, sv, c) ==
    /\ \A x \in AllPaths :
          LET there == sv[x].kind # "none" /\ judge(x)
          IN  /\ dk[x] = (IF there THEN sv[x].kind ELSE "none")
              /\ (EntryAt(h, x) # NoEntry) <=> there
              /\ there => /\ is_dir(h[EntryAt(h, x)]) <=> sv[x].kind = "dir"
                          /\ h[EntryAt(h, x)].status = "UpToDate"
                          /\ sv[x].kind = "file" => h[EntryAt(h, x)].etag = sv[x].etag
    /\ c.exists /\ c.root_entry = root2json_entry(h, RootId).val

\* C27: the line RESET makes the control task send HardRepair and any other
\* line Terminate(false). On HardRepair the dispatcher stops the tasks, removes
\* everything under the local root, the cache file included, and run returns
\* true; the next run starts without a cache and builds the tree and the local
\* root anew from the server. After Terminate(false) run returns false and
\* nothing runs any more.
ResetRestartsFromServer ==
    [][/\ last'.op = "control" =>
              /\ last'.coms = <<IF last'.ln = "RESET" THEN [c |-> "HardRepair"]
                                ELSE Terminate(FALSE)>>
              /\ com_q' = com_q \o last'.coms
       /\ (Running /\ last'.op = "HardRepair") => run_state' = "await_hard"
       /\ (Running /\ last'.op = "Terminate" /\ ~Head(com_q).r) =>
              run_state' = "await" /\ ~retry'
       /\ (run_state = "await_hard" /\ run_state' # "await_hard") =>
              /\ poll_pc = "done" /\ watch_pc = "done" /\ meta_pc = "done"
              /\ control_pc' = "done"
              /\ \A x \in AllPaths : disk'[x] = "none"
              /\ ~cache'.exists
              /\ run_state' = "Ok" /\ retry'
       /\ (run_state = "Ok" /\ retry /\ ~cache.exists) =>
              /\ last'.op = "init"
              /\ last'.err = "" => /\ run_state' = "loop"
                                   /\ Bootstrapped(ent', disk', srv, cache')
       /\ ~(run_state = "Ok" /\ ~retry)]_vars

\* after RESET the next run has built, from the server alone, a tree with a
\* file that the run before did not have
WitnessBootstrappedAfterReset ==
    /\ last.op = "init" /\ last.err = "" /\ run_state = "loop"
    /\ srv[PathA].kind = "file" /\ EntryAt(ent, PathA) # NoEntry
    /\ disk[PathA] = "file"


\* the event the watcher hands over first, and the one behind it when that one
\* comes within 10 ms
FirstRaw == Head(rx).ev
InWindow == Len(rx) > 1 /\ ~rx[2].late

\* C28: a Remove(p) with a Create(q) behind it within 10 ms is sent as the one
\* event Move(p, q); with nothing behind it within 10 ms it is sent as
\* Delete(p); with an event of another kind behind it, Delete(p) is sent and
\* that event is translated as it would be on its own, a Remove included. A
\* Write of a file is sent as Modify, a Rename as Move, a Create as Create, and
\* the events sent keep the order of the events of the watcher.
WatcherCoalescing ==
    [][last'.op = "watching" =>
         /\ FirstRaw.k = "Create" =>
                com_q' = Append(com_q, LocEvent(Create(FirstRaw.p))) /\ rx' = Tail(rx)
         /\ FirstRaw.k = "Write" =>
                /\ rx' = Tail(rx)
                /\ com_q' = IF disk[FirstRaw.p] = "file"
                            THEN Append(com_q, LocEvent(Modify(FirstRaw.p))) ELSE com_q
         /\ FirstRaw.k = "Rename" =>
                com_q' = Append(com_q, LocEvent(Move(FirstRaw.p, FirstRaw.q)))
                    /\ rx' = Tail(rx)
         /\ (FirstRaw.k = "Remove" /\ ~InWindow) =>
                com_q' = Append(com_q, LocEvent(Delete(FirstRaw.p))) /\ rx' = Tail(rx)
         /\ (FirstRaw.k = "Remove" /\ InWindow /\ rx[2].ev.k = "Create") =>
                com_q' = Append(com_q, LocEvent(Move(FirstRaw.p, rx[2].ev.p)))
                    /\ rx' = Tail(Tail(rx))
         /\ (FirstRaw.k = "Remove" /\ InWindow /\ rx[2].ev.k # "Create") =>
                LET next == watching_loop(disk, Tail(rx))
                IN  /\ com_q' = Append(com_q, LocEvent(Delete(FirstRaw.p))) \o next.items
                    /\ rx' = next.rx
                    /\ rx[2].ev.k = "Remove" =>
                           /\ next.items # <<>>
                           /\ next.items[1].ev.p = rx[2].ev.p
                           /\ next.items[1].ev.k \in {"Delete", "Move"}
                    /\ rx[2].ev.k = "Rename" =>
                           next.items = <<LocEvent(Move(rx[2].ev.p, rx[2].ev.q))>>]_vars

\* a Remove was followed within 10 ms by another Remove and then by a Create:
\* the watcher has sent Delete of the first and Move of the second
WitnessRemoveRecycled ==
    /\ last.op = "watching" /\ run_state = "watch"
    /\ last.coms = <<LocEvent(Delete(PathA)), LocEvent(Move(PathB, PathA))>>
    /\ com_q = last.coms
    /\ rx = <<>>


\* the component c matches a regex of the list
Listed(list, c) == \E r \in list : is_match(r, c)
StartsWithDotOrTilde(c) == c \in {".", "..", ".x", ".keep", "~x"}
CompsOf(p) == {components(p)[i] : i \in 1..Len(components(p))}

\* C29: judge(p) is true exactly when every component of p matches a white
\* regex or matches no black regex, a white match of one component exempting
\* no other; the black list always holds "^\." and "^~" with the configured
\* regexes, so that with an empty white list every path with a component that
\* starts with "." or "~" is rejected.
JudgeByComponent ==
    /\ {"^\\.", "^~"} \subseteq exc_checker.blacks
    /\ last.op = "ExcludeChecker::new" =>
          /\ exc_checker.blacks = (last.arg.blacks \ {InvalidRegex}) \cup {"^\\.", "^~"}
          /\ exc_checker.whites = last.arg.whites \ {InvalidRegex}
    /\ last.op = "judge" =>
          /\ last.ret <=> \A c \in CompsOf(last.arg) :
                              Listed(exc_checker.whites, c) \/ ~Listed(exc_checker.blacks, c)
          /\ (exc_checker.whites = {} /\ \E c \in CompsOf(last.arg) : StartsWithDotOrTilde(c))
                 => ~last.ret

\* a path whose first component is white and whose second is black only has
\* been rejected
WitnessWhiteExemptsOneComponent ==
    /\ last.op = "judge" /\ ~last.ret
    /\ last.arg = <<"", ".keep", "b">>
    /\ exc_checker.whites = {"^\\.keep$"} /\ "^b$" \in exc_checker.blacks


\* the pages at the head of the answers api, and the answer that ends them
RECURSIVE Consumed(_)
Consumed(api) ==
    IF api # <<>> /\ Head(api).status = 200 THEN <<Head(api)>> \o Consumed(Tail(api))
    ELSE <<>>
Ending(api) ==
    IF Len(Consumed(api)) = Len(api) THEN ApiStatus(304) ELSE api[Len(Consumed(api)) + 1]
RECURSIVE EventsOf(_)
EventsOf(pages) ==
    IF pages = <<>> THEN <<>> ELSE Head(pages).events \o EventsOf(Tail(pages))

\* C30: get_ncevents reports the error of a failure status other than 304
\* only when it has consumed no page in that call; when it has consumed a page
\* before such a status or a 304, it returns the events of the pages read and
\* leaves the cursor at the X-Activity-Last-Given of the last of them; a 304
\* ends the call without an error.
PaginationKeepsProgress ==
    (last.op = "get_ncevents" /\ run_state = "pages") =>
        LET pages == Consumed(last.arg.api)
            ending == Ending(last.arg.api)
        IN  /\ last.err = "BadStatusError" => pages = <<>> /\ ending.status = 500
            /\ (pages # <<>> /\ ending # NoAnswer) =>
                   /\ last.err = ""
                   /\ last.ret = EventsOf(pages)
                   /\ nc_state = Last(pages).last_given
            /\ ending.status = 304 =>
                   /\ last.err = ""
                   /\ pages = <<>> => nc_state = last.arg.nc_state /\ last.ret = <<>>

\* two pages were read before the server answered 500: their events have been
\* returned and the cursor is at the id of the second
WitnessProgressKeptOnFailure ==
    /\ last.op = "get_ncevents" /\ run_state = "pages" /\ last.err = ""
    /\ last.arg.api = <<ApiPage("5", <<"e1">>), ApiPage("7", <<"e2", "e3">>), ApiStatus(500)>>
    /\ last.ret = <<"e1", "e2", "e3">>
    /\ nc_state = "7"


\* C31: add_head_slash and add_last_slash are idempotent: applied to their own
\* result they return it unchanged, for every text.
SlashAddingIdempotent ==
    /\ last.op = "add_head_slash" => add_head_slash(last.ret) = last.ret
    /\ last.op = "add_last_slash" => add_last_slash(last.ret) = last.ret

\* add_head_slash has been applied to a text without a separator at its head
\* and add_last_slash to one without a separator at its end
WitnessSlashAdded ==
    \/ last.op = "add_head_slash" /\ last.arg = <<"a", "b">> /\ last.ret = <<"", "a", "b">>
    \/ last.op = "add_last_slash" /\ last.arg = <<"a", "b">> /\ last.ret = <<"a", "b", "">>


\* C32: fix_root is idempotent for every text, the texts that end with more
\* than one separator or consist of separators only included.
FixRootIdempotent ==
    last.op = "fix_root" => fix_root(last.ret) = last.ret


\* the local Move the dispatcher handles next is one the handler carries out:
\* the source is gone from the disk and present in the tree, and no side is
\* excluded
LocalMoveCarriedOut ==
    /\ LocEventHandled /\ Head(com_q).ev.k = "Move"
    /\ DiskKind(disk, Head(com_q).ev.p) = "none"
    /\ ~Excluded(Head(com_q).ev.p) /\ ~Excluded(Head(com_q).ev.q)
    /\ get(ent, RootId, path2str(Head(com_q).ev.p)).val # NoEntry
    /\ last'.err = ""

\* C33: after a successful local Move(p, q) with no side excluded,
\* l2nc_cancel_set has gained Move(p, parent directory of q) when p and q have
\* the same basename and Move(p, q) otherwise, and nothing else.
LocalMoveRegistersCancelTarget ==
    [][LocalMoveCarriedOut =>
          LET p == Head(com_q).ev.p
              q == Head(com_q).ev.q
          IN  l2nc_cancel_set' = l2nc_cancel_set \cup
                  {IF Last(p) = Last(q)
                   THEN Move(path2str(p), path2str(PathParent(q)))
                   ELSE Move(path2str(p), path2str(q))}]_vars

\* the file /d/a has been moved to /a, the same basename in the directory
\* above, and the set holds the Move to that directory
WitnessMoveToParentRegistered ==
    /\ last.op = "LocEvent" /\ last.err = "" /\ network_status = "Connect"
    /\ last.events = <<Move(PathDA, PathA)>>
    /\ Move(path2str(PathDA), RootPath) \in l2nc_cancel_set
    /\ EntryAt(ent, PathA) # NoEntry /\ srv[PathA].kind = "file"


\* the batch begins with a Move to an accepted path whose source the tree
\* does not give up
MoveOfAbsentSource ==
    /\ PendingEvents # <<>>
    /\ Head(PendingEvents).k = "Move"
    /\ judge(Head(PendingEvents).q)
    /\ pop(ent, RootId, drop_slash(Head(PendingEvents).p)).err = ""
    /\ pop(ent, RootId, drop_slash(Head(PendingEvents).p)).val = NoEntry

\* the paths of the server at and under the path to, the shortest first
DiscoverableUnder(to) ==
    SortByLen({to} \cup {x \in AllPaths : IsUnder(x, UrlKey(to)) /\ srv[x].kind # "none"})

\* C34: a remote Move(from, to) whose source is not in the tree changes no
\* entry by itself; every path of the server at or under to is created in the
\* tree, parents before children, and only then are the events behind the
\* Move applied.
AbsentSourceMoveBecomesCreates ==
    (MoveOfAbsentSource /\ net) =>
        LET from == drop_slash(Head(PendingEvents).p)
            to == drop_slash(Head(PendingEvents).q)
            alone == update_tree(Here, <<Head(PendingEvents)>>, <<>>)
            whole == update_tree(Here, PendingEvents, <<>>)
        IN  /\ Collect(pop(ent, RootId, from).h) = ent
            /\ alone.err = ""
            /\ \A i \in 1..Len(DiscoverableUnder(to)) :
                   judge(DiscoverableUnder(to)[i]) =>
                       EntryAt(alone.s.h, DiscoverableUnder(to)[i]) # NoEntry
            /\ SameOutcome(whole, update_tree(alone.s, Tail(PendingEvents), alone.dts))


\* what handling the event ev in s writes under the local root lies in the
\* tree the handling leaves: a touched or moved path has an entry and the
\* source of a move has none
TreeBeforeFile(s, ev) ==
    LET r == update_tree(s, <<ev>>, <<>>)
    IN  \A i \in (Len(s.wr) + 1)..Len(r.s.wr) :
            /\ r.s.wr[i].op \in {"touch", "move"} => EntryAt(r.s.h, r.s.wr[i].p) # NoEntry
            /\ r.s.wr[i].op = "move" => EntryAt(r.s.h, r.s.wr[i].from) = NoEntry

\* TreeBeforeFile for the Create, Modify and Move events of a batch, each in
\* the state the events before it leave
RECURSIVE TreeBeforeFileEach(_, _)
TreeBeforeFileEach(s, events) ==
    \/ events = <<>>
    \/ /\ Head(events).k \in {"Create", "Modify", "Move"} => TreeBeforeFile(s, Head(events))
       /\ update_tree(s, <<Head(events)>>, <<>>).err = "" =>
              TreeBeforeFileEach(update_tree(s, <<Head(events)>>, <<>>).s, Tail(events))

\* the download of the file entry e in s: an etag that differs from the
\* server's is replaced whether or not the file is then written, and the book
\* counts the path only when the file has been written
DownloadInOrder(s, e) ==
    LET path == get_path(s.h, e).val
        r == download_file_with_check_etag(s, e)
        after == download_all(s, <<e>>)
        written == Len(r.s.wr) > Len(s.wr)
    IN  (upgrade(s.h, e) /\ is_file(s.h[e]) /\ get_path(s.h, e).err = "") =>
            /\ written => /\ r.s.h[e].etag = s.srv[UrlKey(path)].etag
                          /\ Count(after.n2l, path) = Count(s.n2l, path) + 1
            /\ r.err = "IoError" => /\ r.s.h[e].etag = s.srv[UrlKey(path)].etag
                                    /\ r.s.disk = s.disk
                                    /\ after.n2l = s.n2l
            /\ after.n2l # s.n2l => written

\* DownloadInOrder for the targets of a batch, each in the state the
\* downloads before it leave
RECURSIVE DownloadInOrderEach(_, _)
DownloadInOrderEach(s, targets) ==
    \/ targets = <<>>
    \/ /\ DownloadInOrder(s, Head(targets))
       /\ DownloadInOrderEach(download_all(s, <<Head(targets)>>), Tail(targets))

\* what a local event adds to l2nc_cancel_set lies in the tree the handler
\* leaves, and a handler that leaves the tree alone adds nothing
TreeBeforeBook(s, ev) ==
    LET r == deal_local_event(s, ev)
    IN  /\ \A x \in r.s.l2n \ s.l2n :
               CASE x.k \in {"Create", "Modify"} -> EntryAt(r.s.h, x.p) # NoEntry
                 [] x.k = "Delete" -> EntryAt(r.s.h, x.p) = NoEntry
                 [] x.k = "Move" -> /\ EntryAt(r.s.h, x.p) = NoEntry
                                    /\ EntryAt(r.s.h, path2str(ev.q)) # NoEntry
        /\ Collect(r.s.h) = Collect(s.h) => r.s.l2n = s.l2n

Canonical(s) ==
    /\ Len(s) >= 2
    /\ s[1] = ""
    /\ s = RootPath \/ \A i \in 2..Len(s) : s[i] # ""

\* the names of a canonical path from the last to the first, none with a
\* separator, and the empty text for the root
ReversedSegments(s) ==
    IF s = RootPath THEN <<EmptyStr>>
    ELSE [i \in 1..Len(s) |-> <<s[Len(s) + 1 - i]>>]

\* C36: prepare_path_vec of a canonical path is the stack of its names without
\* separators, the last name first and the empty text for the root last:
\* [""] for "/" and ["c.md", "b", "a", ""] for "/a/b/c.md".
PreparePathVecSplits ==
    (last.op = "prepare_path_vec" /\ Canonical(last.arg)) =>
        last.ret = ReversedSegments(last.arg)


\* C37: the replay of soft repair always completes: the dispatcher never
\* waits in a send to the command queue, which only the dispatcher empties.
ReplayNeverBlocks ==
    run_state # "send"


\* C38: every counter stored in nc2l_cancel_map is at least 1: a key is made
\* with 1 or raised, haveto_cancel_target removes the key whose counter
\* reaches zero, and no stored zero is ever decremented.
StoredCountersPositive ==
    \A k \in DOMAIN nc2l_cancel_map : nc2l_cancel_map[k] >= 1

\* the book has cancelled the Modify of a downloaded file and the key, whose
\* counter has reached zero, is gone
WitnessKeyRemovedAtZero ==
    /\ last.op = "LocEvent" /\ last.err = "" /\ network_status = "Connect"
    /\ \E p \in AllPaths :
          /\ last.events \in {<<Modify(p)>>, <<Create(p)>>}
          /\ judge(p) /\ DiskKind(disk, p) = "file"
          /\ EntryAt(ent, path2str(p)) # NoEntry
          /\ l2nc_cancel_set = {}
          /\ path2str(p) \notin DOMAIN nc2l_cancel_map
          /\ \E i \in 1..Len(log) : log[i].by = "user" /\ log[i].ev.p = path2str(p)


\* C39: when the PUT, MKCOL, DELETE or MOVE request of a local event fails,
\* by a status that is no success or by the transport, the handler returns
\* the error and leaves the tree and l2nc_cancel_set as they were.
FailedRequestChangesNothing ==
    [][(LocEventHandled /\ last'.err \in {"RequestError", "BadStatusError"}) =>
          UNCHANGED <<ent, l2nc_cancel_set>>]_vars

\* the request of a local Delete has failed: the file is gone from the disk
\* and the tree still holds its entry
WitnessDeleteRequestFailed ==
    /\ last.op = "LocEvent"
    /\ last.err \in {"RequestError", "BadStatusError"}
    /\ \E p \in AllPaths :
          /\ last.events = <<Delete(p)>>
          /\ DiskKind(disk, p) = "none"
          /\ EntryAt(ent, path2str(p)) # NoEntry
          /\ Delete(path2str(p)) \notin l2nc_cancel_set


\* the download of the file entry e in s that does not write the file leaves
\* the etag of e as it is and e not UpToDate
EtagKept(s, e) ==
    LET r == download_file_with_check_etag(s, e)
        after == download_all(s, <<e>>)
    IN  (upgrade(s.h, e) /\ is_file(s.h[e]) /\ s.h[e].status = "NeedUpdate"
             /\ r.err # "") =>
            /\ r.s.disk = s.disk
            /\ after.h[e].etag = s.h[e].etag
            /\ after.h[e].status # "UpToDate"

\* EtagKept for the targets of a batch, each in the state the downloads before
\* it leave
RECURSIVE EtagKeptEach(_, _)
EtagKeptEach(s, targets) ==
    \/ targets = <<>>
    \/ /\ EtagKept(s, Head(targets))
       /\ EtagKeptEach(download_all(s, <<Head(targets)>>), Tail(targets))

\* C40: the download step replaces the etag of an entry by the server's only
\* when the content has been written to the local file: when the write fails
\* the entry keeps its etag and is not marked UpToDate.
EtagReplacedOnlyWithWrittenFile ==
    (PendingEvents # <<>> /\ update_tree(Here, PendingEvents, <<>>).err = "") =>
        EtagKeptEach(update_tree(Here, PendingEvents, <<>>).s,
                     update_tree(Here, PendingEvents, <<>>).dts)

====
